---- MODULE Spec2Model ----
(***************************************************************************)
(* A model of zstackctl's lifecycle and upgrade orchestration (ctl.py).    *)
(*                                                                         *)
(* The module holds several state machines over one set of variables; each *)
(* specification drives one group of variables and leaves the others at    *)
(* their initial values:                                                   *)
(*   SpecLoop  the wrapper produced by loop_until_timeout                  *)
(*   SpecNode  start_node / stop_node on the local machine                 *)
(*   SpecDb    upgrade_db and its running-node check                       *)
(*   SpecTopo  the topology-wide start / stop, kairosdb and cassandra stop *)
(*   SpecUpg   save_config / restore_config / upgrade_management_node      *)
(* Time is counted in whole ticks (seconds).  Commands run by shell() are  *)
(* external: each one nondeterministically succeeds or exits non-zero.     *)
(***************************************************************************)
EXTENDS Integers, Sequences, FiniteSets, TLC

\* ---------------------------------------------------------------- bounds
MaxTimeout == 4
MaxInterval == 2
MaxBecome == 5
MaxStartTimeout == 2
MaxBeat == 1
MaxDbRuns == 2

\* the steps of a command's run()
MaxSteps == 3

\* ------------------------------------------------------ program constants
BootSleep == 5
StopTimeout == 30
KairosStopCount == 30
CassStopCount == 30
GraceWait == 10
LatestVersion == 1

VARIABLES
    \* loop_until_timeout (ctl.py 29-42)
    timeout,        \* argument of loop_until_timeout
    interval,       \* argument of loop_until_timeout
    becomesTrue,    \* the instant from which the predicate f answers true
    clock,          \* time.time(), measured from the call of inner()
    current_time,   \* local of inner()
    expired,        \* local of inner()
    loopPc,         \* position inside inner()
    loopRet,        \* value returned by inner(): "none" until it returns
    calls,          \* number of invocations of f so far
    \* the machine that start_node, stop_node, kairosdb and cassandra act on
    nodeProc,       \* get_management_node_pid() finds a pid
    api,            \* answer of the readiness RPC: "down" (command fails),
                    \* "false" (not ready yet) or "true"
    bootErrorLog,   \* ~zstack/bootError.log exists
    envFile,        \* ~zstack/zstack-ctl/ctl-env exists
    kairosExe,      \* KAIROSDB_EXEC: "unset", "missing" (path absent), "ok"
    kairosProc,     \* a process matching org.kairosdb.core.Main exists
    cassProc,       \* a process matching ...CassandraDaemon exists
    \* the command being run
    svcPc,          \* position inside the command
    svcCmd,         \* name of the top-level command
    argTimeout,     \* args.timeout of start_node, args.wait_timeout of
                    \* kairosdb --start and cassandra --start (-1: not given)
    argForce,       \* args.force of stop_node
    svcClock,       \* seconds since the command was invoked
    svcResult,      \* outcome of the top-level command
    svcLog,         \* external commands run so far by this command
    setenvWritten,  \* this command wrote bin/setenv.sh
    stopCaller,     \* who runs StopCmd.run: "top" or "start_node"
    stopResult,     \* outcome of the stop_node run nested in start_node
    pendingError,   \* the CtlError caught at ctl.py:1143
    wait_current,   \* current_time of the active loop_until_timeout wrapper
    wait_expired,   \* expired of the active loop_until_timeout wrapper
    count,          \* `count` of KairosdbCmd.stop / CassandraCmd.stop
    pre,            \* the machine's state when the command was invoked
    \* upgrade_db
    registry,       \* table ManagementNodeVO: hostname -> heartBeat
    tools,          \* the external tools `which` finds
    dbConfigured,   \* zstack.properties holds DB.url, DB.user, DB.password
    flywayInstalled, \* the flyway tool and db/upgrade/ exist in ZSTACK_HOME
    schemaTable,    \* table schema_version exists
    schemaVersion,  \* migration progress of the schema
    dbBackups,      \* number of database dumps written
    dbRuns,         \* number of upgrade_db runs so far
    dbPc,           \* position inside UpgradeDbCmd.run / RollbackDatabaseCmd.run
    dbCmd,          \* "upgrade_db" or "rollback_db"
    db_dump,        \* the file given as --db-dump exists
    dbForce,        \* args.force
    dbNoBackup,     \* args.no_backup
    dbDryRun,       \* args.dry_run
    dbResult,       \* outcome of the command
    dbLog,          \* mutating commands run so far by this command
    nodes,          \* first sample of the registry
    new_nodes,      \* sample taken after the grace wait
    samples,        \* number of get_nodes() calls that succeeded in this run
    checkPassed,    \* check_if_management_node_has_stopped returned
    dbClock,        \* seconds since the command was invoked
    \* the topology-wide start / stop
    cassExe,        \* CASSANDRA_EXEC: "unset", "missing" (path absent), "ok"
    uiInstalled,    \* /var/lib/zstack/virtualenv/zstack-dashboard exists
    uiProc,         \* a process matching zstack_dashboard exists
    topoPc,         \* position inside StopAllCmd.run / StartAllCmd.run
    topoCmd,        \* "stop" or "start"
    topoResult,     \* outcome of the command
    topoLog,        \* the service steps taken so far, each with its outcome
    \* save_config, restore_config and the local upgrade_management_node
    home,           \* the unpacked artifact at ZSTACK_HOME
    props,          \* ZSTACK_HOME/WEB-INF/classes/zstack.properties
    owner,          \* the owner of the installation tree
    saved,          \* folder -> its zstack.properties
    lastSaved,      \* folder -> the live file as it was when last saved there
    bkProps,        \* upgrade_tmp_dir/zstack.properties
    bkTree,         \* upgrade_tmp_dir/zstack
    webappWar,      \* zstack.war in the webapps directory
    savedWar,       \* zstack.war kept three levels above ZSTACK_HOME
    ctlTools,       \* the installed zstack-cli / zstack-ctl
    upgTools,       \* which of unzip and wget `which` finds
    upgPc,          \* position inside the running command
    upgCmd,         \* the command
    argDir,         \* args.save_to / args.restore_from
    need_download,  \* args.war_file starts with 'http'
    upgResult,      \* outcome of the command
    upgLog,         \* the steps taken so far, each with its outcome
    upgPre,         \* the installation when the command was invoked
    property_file,  \* args.property_file: "none", "absent" or its content
    upgMessage,     \* the paths the reported error message names
    \* use_user_zstack
    euid,           \* the process's effective user id
    egid,           \* the process's effective group id
    homeEnv,        \* os.environ['HOME'], "unset" without it
    root_uid,       \* self.root_uid
    root_gid,       \* self.root_gid
    root_home,      \* self.root_home
    idPc,           \* position inside the with statement
    idSite,         \* the caller of use_user_zstack()
    idRaised,       \* the exception that leaves the with statement
    idPre,          \* the identity right before the with statement
    \* main
    mainPc,         \* position of the process inside main()
    mainSteps,      \* the number of steps the command's run() is made of
    mainDone,       \* the steps of run() that completed
    mainRaised,     \* the exception in flight
    cleanups,       \* cleanup routines the command installed and not yet run
    exit_code,      \* the exit code of the process
    \* status
    what_tool,      \* use_tool(): "wget", "curl" or "none"
    return_code,    \* the exit code of the readiness command
    stdout,         \* what the readiness command printed
    cmdline,        \* a process with appName=zstack in its command line
    propertiesFile, \* zstack.properties is there
    pidFile,        \* the pid file: "absent", "garbage", "dead" or "alive"
    stPc,           \* position inside check_zstack_status
    status,         \* the status written
    \* commands given --host
    rmCmd,          \* the command given --host H
    rmArgs,         \* its options, as parsed by argparse
    rmPc,           \* "run", "done" or "off"
    rmLine,         \* the zstack-ctl command run on H, with its options
    src_war,        \* src of the playbook's copy task: "unset" without a
                    \* playbook, "None" for Python's None, else the war file
    \* two start_node commands run as two processes on one machine
    racePc,         \* position of each process inside StartCmd.run
    raceNode,       \* a management node process exists
    racePort,       \* port 8080 is in LISTEN
    raceLaunched,   \* number of times the start script has been run
    raceResult,     \* how each process's run ended: "none" until it ends
    \* one property file read and written through ctl
    pfPresent,      \* os.path.isfile(path)
    pfFile,         \* the value of each key in the file (NoValue: not there)
    pfPc,           \* "idle" or "done"
    pfOp,           \* the method of Ctl called last
    pfArgs,         \* its arguments: a key, or a list of (key, value)
    pfRet,          \* what it returned, or "CtlError"
    pfPre,          \* pfFile when it was called
    \* StartUiCmd.run on the local host
    suIps,          \* CloudBus.serverIp.N is configured
    suVenv,         \* the virtualenv of the dashboard exists
    suProc,         \* find_process_by_cmdline('zstack_dashboard') finds a pid
    suPidFile,      \* PID_FILE: "absent", "live" or "stale" (no such process)
    suPc,           \* position inside run()
    suLaunched,     \* the nohup script of this run has been issued
    suClock,        \* time.time() in half seconds since write_pid() was called
    suWrote,        \* write_pid() has written the PID file in this run
    suReport        \* what run() told the user: "none" until it ends

loopVars == <<timeout, interval, becomesTrue, clock, current_time, expired,
              loopPc, loopRet, calls>>

machineVars == <<nodeProc, api, bootErrorLog, envFile, kairosExe, kairosProc,
                 cassProc>>

cmdVars == <<svcPc, svcCmd, argTimeout, argForce, svcClock, svcResult, svcLog,
             setenvWritten, stopCaller, stopResult, pendingError,
             wait_current, wait_expired, count, pre>>

svcVars == <<machineVars, cmdVars>>

dbVars == <<registry, tools, dbConfigured, flywayInstalled, schemaTable,
            schemaVersion, dbBackups, dbRuns, dbPc, dbCmd, db_dump, dbForce,
            dbNoBackup,
            dbDryRun, dbResult, dbLog, nodes, new_nodes, samples, checkPassed,
            dbClock>>

topoVars == <<cassExe, uiInstalled, uiProc, topoPc, topoCmd, topoResult,
              topoLog>>

upgVars == <<home, props, owner, saved, lastSaved, bkProps, bkTree, webappWar,
             savedWar, ctlTools, upgTools, upgPc, upgCmd, argDir,
             need_download, upgResult, upgLog, upgPre, property_file,
             upgMessage>>

idVars == <<euid, egid, homeEnv, root_uid, root_gid, root_home, idPc, idSite,
            idRaised, idPre>>

mainVars == <<mainPc, mainSteps, mainDone, mainRaised, cleanups, exit_code>>

stVars == <<what_tool, return_code, stdout, cmdline, propertiesFile, pidFile,
            stPc, status>>

rmVars == <<rmCmd, rmArgs, rmPc, rmLine, src_war>>

raceVars == <<racePc, raceNode, racePort, raceLaunched, raceResult>>

pfVars == <<pfPresent, pfFile, pfPc, pfOp, pfArgs, pfRet, pfPre>>

suVars == <<suIps, suVenv, suProc, suPidFile, suPc, suLaunched, suClock,
           suWrote, suReport>>

auxVars == <<raceVars, pfVars, suVars>>

vars == <<loopVars, svcVars, dbVars, topoVars, upgVars, idVars, mainVars,
          stVars, rmVars, auxVars>>

\* what each machine leaves alone
notLoop == <<svcVars, dbVars, topoVars, upgVars, idVars,
    mainVars, stVars, rmVars, auxVars>>

notSvc == <<loopVars, dbVars, topoVars, upgVars, idVars,
    mainVars, stVars, rmVars, auxVars>>

notDb == <<loopVars, svcVars, topoVars, upgVars, idVars,
    mainVars, stVars, rmVars, auxVars>>

notTopo == <<loopVars, cmdVars, dbVars, upgVars, idVars,
    mainVars, stVars, rmVars, auxVars>>

notUpg == <<loopVars, cmdVars, dbVars, topoVars, idVars,
    mainVars, stVars, rmVars, auxVars>>

notId == <<loopVars, svcVars, dbVars, topoVars, upgVars,
    mainVars, stVars, rmVars, auxVars>>

notMain == <<loopVars, svcVars, dbVars, topoVars, upgVars, idVars, stVars,
            rmVars, auxVars>>

notSt == <<loopVars, svcVars, dbVars, topoVars, upgVars, idVars, mainVars,
          rmVars, auxVars>>

notRm == <<loopVars, svcVars, dbVars, topoVars, upgVars, idVars, mainVars,
          stVars, auxVars>>

notAux == <<loopVars, svcVars, dbVars, topoVars, upgVars, idVars, mainVars,
           stVars, rmVars>>

\* ------------------------------------------------- loop_until_timeout
LoopInit ==
    /\ timeout \in 0..MaxTimeout
    /\ interval \in 1..MaxInterval
    /\ becomesTrue \in 0..MaxBecome
    /\ clock = 0
    /\ current_time = 0
    /\ expired = 0
    /\ loopPc = "enter"
    /\ loopRet = "none"
    /\ calls = 0

LoopIdle ==
    /\ timeout = 0
    /\ interval = 1
    /\ becomesTrue = 0
    /\ clock = 0
    /\ current_time = 0
    /\ expired = 0
    /\ loopPc = "off"
    /\ loopRet = "none"
    /\ calls = 0

\* the predicate f, evaluated at the present instant
Predicate == clock >= becomesTrue

\* `while current_time < expired`, written with <= as in a slip of the bound
LoopCondInclusive == current_time <= expired

\* `while current_time < expired`
LoopCond == current_time < expired

\* current_time = time.time(); expired = current_time + timeout
LoopEnter ==
    /\ loopPc = "enter"
    /\ current_time' = clock
    /\ expired' = clock + timeout
    /\ loopPc' = "test"
    /\ UNCHANGED <<timeout, interval, becomesTrue, clock, loopRet, calls>>
    /\ UNCHANGED notLoop

\* the while test; falling out of the loop returns False
LoopTest ==
    /\ loopPc = "test"
    /\ IF LoopCond
          THEN loopPc' = "call" /\ loopRet' = loopRet
          ELSE loopPc' = "done" /\ loopRet' = "False"
    /\ UNCHANGED <<timeout, interval, becomesTrue, clock, current_time,
                   expired, calls>>
    /\ UNCHANGED notLoop

\* if f(*args, **kwargs): return True
LoopCall ==
    /\ loopPc = "call"
    /\ calls' = calls + 1
    /\ IF Predicate
          THEN loopPc' = "done" /\ loopRet' = "True"
          ELSE loopPc' = "sleep" /\ loopRet' = loopRet
    /\ UNCHANGED <<timeout, interval, becomesTrue, clock, current_time,
                   expired>>
    /\ UNCHANGED notLoop

\* time.sleep(interval); current_time = time.time()
LoopSleep ==
    /\ loopPc = "sleep"
    /\ clock' = clock + interval
    /\ current_time' = clock + interval
    /\ loopPc' = "test"
    /\ UNCHANGED <<timeout, interval, becomesTrue, expired, loopRet, calls>>
    /\ UNCHANGED notLoop

NextLoop ==
    \/ LoopEnter
    \/ LoopTest
    \/ LoopCall
    \/ LoopSleep

\* ------------------------------------- the machine and the command runner
ApiStates == {"down", "false", "true"}

ExeStates == {"unset", "missing", "ok"}

SvcCommands == {"start_node", "stop_node", "kairosdb_stop", "cassandra_stop",
                "kairosdb_start", "cassandra_start"}

\* the positions at which the command is asleep and the machine moves on
Sleeping == {"idle", "boot_sleep", "wait_sleep", "stopwait_sleep",
             "kairos_sleep", "cass_sleep", "kairos_wsleep", "cass_wsleep"}

Snapshot == [nodeProc |-> nodeProc, kairosProc |-> kairosProc,
             cassProc |-> cassProc, bootErrorLog |-> bootErrorLog]

CmdIdle ==
    /\ svcPc = "idle"
    /\ svcCmd = "none"
    /\ argTimeout = 0
    /\ argForce = FALSE
    /\ svcClock = 0
    /\ svcResult = "none"
    /\ svcLog = <<>>
    /\ setenvWritten = FALSE
    /\ stopCaller = "top"
    /\ stopResult = "none"
    /\ pendingError = "none"
    /\ wait_current = 0
    /\ wait_expired = 0
    /\ count = 0
    /\ pre = [nodeProc |-> FALSE, kairosProc |-> FALSE, cassProc |-> FALSE,
              bootErrorLog |-> FALSE]

SvcInit ==
    /\ nodeProc \in BOOLEAN
    /\ api \in (IF nodeProc THEN ApiStates ELSE {"down"})
    /\ bootErrorLog \in BOOLEAN
    /\ envFile \in BOOLEAN
    /\ kairosExe \in (IF envFile THEN ExeStates ELSE {"unset"})
    /\ kairosProc \in BOOLEAN
    /\ cassProc \in BOOLEAN
    /\ CmdIdle

MachineIdle ==
    /\ nodeProc = FALSE
    /\ api = "down"
    /\ bootErrorLog = FALSE
    /\ envFile = FALSE
    /\ kairosExe = "unset"
    /\ kairosProc = FALSE
    /\ cassProc = FALSE

CmdOff ==
    /\ svcPc = "off"
    /\ svcCmd = "none"
    /\ argTimeout = 0
    /\ argForce = FALSE
    /\ svcClock = 0
    /\ svcResult = "none"
    /\ svcLog = <<>>
    /\ setenvWritten = FALSE
    /\ stopCaller = "top"
    /\ stopResult = "none"
    /\ pendingError = "none"
    /\ wait_current = 0
    /\ wait_expired = 0
    /\ count = 0
    /\ pre = [nodeProc |-> FALSE, kairosProc |-> FALSE, cassProc |-> FALSE,
              bootErrorLog |-> FALSE]

SvcIdle == MachineIdle /\ CmdOff

\* ---- the environment: what the services do while the command sleeps

\* the booting node comes to answer the readiness RPC, first "false" then "true"
EnvNodeProgress ==
    /\ svcPc \in Sleeping
    /\ nodeProc
    /\ api # "true"
    /\ api' = (IF api = "down" THEN "false" ELSE "true")
    /\ UNCHANGED <<nodeProc, bootErrorLog, envFile, kairosExe, kairosProc,
                   cassProc>>
    /\ UNCHANGED cmdVars
    /\ UNCHANGED notSvc

\* the booting node fails and writes bootError.log
EnvBootError ==
    /\ svcPc \in Sleeping
    /\ nodeProc
    /\ api = "down"
    /\ ~bootErrorLog
    /\ bootErrorLog' = TRUE
    /\ UNCHANGED <<nodeProc, api, envFile, kairosExe, kairosProc, cassProc>>
    /\ UNCHANGED cmdVars
    /\ UNCHANGED notSvc

\* the node's process ends (shut down or crashed)
EnvNodeExit ==
    /\ svcPc \in Sleeping
    /\ nodeProc
    /\ nodeProc' = FALSE
    /\ api' = "down"
    /\ UNCHANGED <<bootErrorLog, envFile, kairosExe, kairosProc, cassProc>>
    /\ UNCHANGED cmdVars
    /\ UNCHANGED notSvc

EnvKairosExit ==
    /\ svcPc \in Sleeping
    /\ kairosProc
    /\ kairosProc' = FALSE
    /\ UNCHANGED <<nodeProc, api, bootErrorLog, envFile, kairosExe, cassProc>>
    /\ UNCHANGED cmdVars
    /\ UNCHANGED notSvc

EnvCassExit ==
    /\ svcPc \in Sleeping
    /\ cassProc
    /\ cassProc' = FALSE
    /\ UNCHANGED <<nodeProc, api, bootErrorLog, envFile, kairosExe,
                   kairosProc>>
    /\ UNCHANGED cmdVars
    /\ UNCHANGED notSvc

\* ---- Ctl.run: one top-level command at a time
Invoke ==
    /\ svcPc = "idle"
    /\ \E c \in SvcCommands, t \in 0..MaxStartTimeout, f \in BOOLEAN :
          /\ svcCmd' = c
          /\ argTimeout' = CASE c = "start_node" -> t
                              [] c \in {"kairosdb_start", "cassandra_start"}
                                    -> (IF f THEN t ELSE -1)
                              [] OTHER -> 0
          /\ argForce' = (IF c = "stop_node" THEN f ELSE FALSE)
          /\ svcPc' = CASE c = "start_node" -> "start_rm_log"
                        [] c = "stop_node" -> "stop_getpid"
                        [] c = "kairosdb_stop" -> "kairos_status"
                        [] c = "kairosdb_start" -> "kairos_start"
                        [] c = "cassandra_start" -> "cass_start"
                        [] OTHER -> "cass_status"
    /\ svcClock' = 0
    /\ svcResult' = "none"
    /\ svcLog' = <<>>
    /\ setenvWritten' = FALSE
    /\ stopCaller' = "top"
    /\ stopResult' = "none"
    /\ pendingError' = "none"
    /\ wait_current' = 0
    /\ wait_expired' = 0
    /\ count' = 0
    /\ pre' = Snapshot
    /\ UNCHANGED machineVars
    /\ UNCHANGED notSvc

\* the command has returned to the shell; the next one may be typed
Return ==
    /\ svcPc = "done"
    /\ svcPc' = "idle"
    /\ svcCmd' = "none"
    /\ argTimeout' = 0
    /\ argForce' = FALSE
    /\ svcClock' = 0
    /\ svcResult' = "none"
    /\ svcLog' = <<>>
    /\ setenvWritten' = FALSE
    /\ stopCaller' = "top"
    /\ stopResult' = "none"
    /\ pendingError' = "none"
    /\ wait_current' = 0
    /\ wait_expired' = 0
    /\ count' = 0
    /\ pre' = [nodeProc |-> FALSE, kairosProc |-> FALSE, cassProc |-> FALSE,
               bootErrorLog |-> FALSE]
    /\ UNCHANGED machineVars
    /\ UNCHANGED notSvc

\* the frame of a step that only moves the command on
Step(next) ==
    /\ svcPc' = next
    /\ UNCHANGED <<svcCmd, argTimeout, argForce, pre>>
    /\ UNCHANGED notSvc

\* the top-level command ends with result r
Finish(r) ==
    /\ Step("done")
    /\ svcResult' = r

\* StopCmd.run ends with result r: the top-level stop_node reports it, the
\* one nested in start_node has it swallowed (ctl.py:1147) and the caught
\* error is raised again (ctl.py:1150)
StopReturn(r) ==
    /\ Step("done")
    /\ IF stopCaller = "start_node"
          THEN svcResult' = pendingError /\ stopResult' = r
          ELSE svcResult' = r /\ stopResult' = stopResult

\* ---- StartCmd.run (local)

\* a run that leaves the boot error log where it is
StartRmLogKept ==
    /\ svcPc = "start_rm_log"
    /\ bootErrorLog' = bootErrorLog
    /\ svcLog' = Append(svcLog, "rm_boot_log")
    /\ Step("start_getpid")
    /\ UNCHANGED <<nodeProc, api, envFile, kairosExe, kairosProc, cassProc>>
    /\ UNCHANGED <<svcClock, svcResult, setenvWritten, stopCaller, stopResult,
                   pendingError, wait_current, wait_expired, count>>

\* shell('rm -f %s' % boot_error_log)
StartRmLog ==
    /\ svcPc = "start_rm_log"
    /\ bootErrorLog' = FALSE
    /\ svcLog' = Append(svcLog, "rm_boot_log")
    /\ Step("start_getpid")
    /\ UNCHANGED <<nodeProc, api, envFile, kairosExe, kairosProc, cassProc>>
    /\ UNCHANGED <<svcClock, svcResult, setenvWritten, stopCaller, stopResult,
                   pendingError, wait_current, wait_expired, count>>

\* pid = get_management_node_pid(); if pid: return
StartGetPid ==
    /\ svcPc = "start_getpid"
    /\ IF nodeProc THEN Finish("ok")
                   ELSE Step("check_8080") /\ svcResult' = svcResult
    /\ UNCHANGED machineVars
    /\ UNCHANGED <<svcClock, svcLog, setenvWritten, stopCaller, stopResult,
                   pendingError, wait_current, wait_expired, count>>

\* a dependency check placed after prepare_setenv(): bin/setenv.sh is
\* written by the time the check runs
DependencyCheckLate(at, name, err, next) ==
    /\ svcPc = at
    /\ svcLog' = Append(svcLog, name)
    /\ setenvWritten' = TRUE
    /\ \E passed \in BOOLEAN :
          IF passed THEN Step(next) /\ svcResult' = svcResult
                    ELSE Finish(err)
    /\ UNCHANGED machineVars
    /\ UNCHANGED <<svcClock, stopCaller, stopResult, pendingError,
                   wait_current, wait_expired, count>>

\* a dependency check: it passes, or raises the CtlError err
DependencyCheck(at, name, err, next) ==
    /\ svcPc = at
    /\ svcLog' = Append(svcLog, name)
    /\ \E passed \in BOOLEAN :
          IF passed THEN Step(next) /\ svcResult' = svcResult
                    ELSE Finish(err)
    /\ UNCHANGED machineVars
    /\ UNCHANGED <<svcClock, setenvWritten, stopCaller, stopResult,
                   pendingError, wait_current, wait_expired, count>>

check_8080 ==
    DependencyCheck("check_8080", "check_8080", "PortOccupied", "check_msyql")

check_msyql ==
    DependencyCheck("check_msyql", "check_msyql", "MysqlUnreachable",
                    "check_rabbitmq")

check_rabbitmq ==
    DependencyCheck("check_rabbitmq", "check_rabbitmq", "RabbitUnreachable",
                    "prepare_setenv")

\* ctl.get_env('CATALINA_OPTS') opens the environment file, which raises
\* when the file is absent; then bin/setenv.sh is written
prepare_setenv ==
    /\ svcPc = "prepare_setenv"
    /\ IF envFile
          THEN /\ setenvWritten' = TRUE
               /\ Step("start_mgmt_node")
               /\ svcResult' = svcResult
          ELSE /\ setenvWritten' = setenvWritten
               /\ Finish("ConfigError")
    /\ UNCHANGED machineVars
    /\ UNCHANGED <<svcClock, svcLog, stopCaller, stopResult, pendingError,
                   wait_current, wait_expired, count>>

\* shell('sudo -u zstack sh startup.sh -DappName=zstack')
start_mgmt_node ==
    /\ svcPc = "start_mgmt_node"
    /\ svcLog' = Append(svcLog, "startup")
    /\ \E rc0 \in BOOLEAN :
          IF rc0
             THEN /\ nodeProc' = TRUE
                  /\ api' = "down"
                  /\ Step("boot_sleep")
                  /\ svcResult' = svcResult
             ELSE /\ UNCHANGED <<nodeProc, api>>
                  /\ Finish("ShellError")
    /\ UNCHANGED <<bootErrorLog, envFile, kairosExe, kairosProc, cassProc>>
    /\ UNCHANGED <<svcClock, setenvWritten, stopCaller, stopResult,
                   pendingError, wait_current, wait_expired, count>>

\* time.sleep(5)
StartBootSleep ==
    /\ svcPc = "boot_sleep"
    /\ svcClock' = svcClock + BootSleep
    /\ Step("wait_enter")
    /\ UNCHANGED machineVars
    /\ UNCHANGED <<svcResult, svcLog, setenvWritten, stopCaller, stopResult,
                   pendingError, wait_current, wait_expired, count>>

\* entry of a loop_until_timeout wrapper with timeout t
WaitEnter(at, t, next) ==
    /\ svcPc = at
    /\ wait_current' = svcClock
    /\ wait_expired' = svcClock + t
    /\ Step(next)
    /\ UNCHANGED machineVars
    /\ UNCHANGED <<svcClock, svcResult, svcLog, setenvWritten, stopCaller,
                   stopResult, pendingError, count>>

\* time.sleep(interval); current_time = time.time(), with interval 1
WaitSleep(at, next) ==
    /\ svcPc = at
    /\ svcClock' = svcClock + 1
    /\ wait_current' = svcClock + 1
    /\ Step(next)
    /\ UNCHANGED machineVars
    /\ UNCHANGED <<svcResult, svcLog, setenvWritten, stopCaller, stopResult,
                   pendingError, wait_expired, count>>

\* `while current_time < expired` of the active wrapper
WaitCond == wait_current < wait_expired

\* wait_mgmt_node_start: check = loop_until_timeout(int(args.timeout))(check)
StartWaitEnter == WaitEnter("wait_enter", argTimeout, "wait_test")

\* the wrapper falls out of its loop: check() is False and the CtlError
\* 'no management-node-ready message received' is raised into the handler
StartWaitTest ==
    /\ svcPc = "wait_test"
    /\ IF WaitCond
          THEN Step("wait_check") /\ pendingError' = pendingError
          ELSE Step("cleanup") /\ pendingError' = "StartupTimeout"
    /\ UNCHANGED machineVars
    /\ UNCHANGED <<svcClock, svcResult, svcLog, setenvWritten, stopCaller,
                   stopResult, wait_current, wait_expired, count>>

\* check(): a boot error log raises; else the readiness command's exit code
StartWaitCheck ==
    /\ svcPc = "wait_check"
    /\ IF bootErrorLog
          THEN /\ Step("cleanup")
               /\ pendingError' = "BootFailed"
               /\ svcResult' = svcResult
          ELSE IF api # "down"
                  THEN Finish("ok") /\ pendingError' = pendingError
                  ELSE /\ Step("wait_sleep")
                       /\ pendingError' = pendingError
                       /\ svcResult' = svcResult
    /\ UNCHANGED machineVars
    /\ UNCHANGED <<svcClock, svcLog, setenvWritten, stopCaller, stopResult,
                   wait_current, wait_expired, count>>

StartWaitSleep == WaitSleep("wait_sleep", "wait_test")

\* except CtlError: ctl.internal_run('stop_node')
StartCleanup ==
    /\ svcPc = "cleanup"
    /\ svcLog' = Append(svcLog, "stop_node")
    /\ stopCaller' = "start_node"
    /\ Step("stop_getpid")
    /\ UNCHANGED machineVars
    /\ UNCHANGED <<svcClock, svcResult, setenvWritten, stopResult,
                   pendingError, wait_current, wait_expired, count>>

\* ---- StopCmd.run (local)

\* `if not pid`, with the test dropped: the stop sequence always runs
NeverStopped == FALSE

\* pid = get_management_node_pid(); if not pid: return
AlreadyStopped == ~nodeProc

\* the stop sequence entered at the graceful stop whatever args.force is
StopGetPidGraceful ==
    /\ svcPc = "stop_getpid"
    /\ IF AlreadyStopped
          THEN StopReturn("ok")
          ELSE /\ Step("stop_script")
               /\ UNCHANGED <<svcResult, stopResult>>
    /\ UNCHANGED machineVars
    /\ UNCHANGED <<svcClock, svcLog, setenvWritten, stopCaller, pendingError,
                   wait_current, wait_expired, count>>

StopGetPid ==
    /\ svcPc = "stop_getpid"
    /\ IF AlreadyStopped
          THEN StopReturn("ok")
          ELSE /\ Step(IF argForce THEN "stop_kill" ELSE "stop_script")
               /\ UNCHANGED <<svcResult, stopResult>>
    /\ UNCHANGED machineVars
    /\ UNCHANGED <<svcClock, svcLog, setenvWritten, stopCaller, pendingError,
                   wait_current, wait_expired, count>>

\* shell('bash shutdown.sh'): a non-zero exit raises CtlError
StopScript ==
    /\ svcPc = "stop_script"
    /\ svcLog' = Append(svcLog, "shutdown")
    /\ \E rc0 \in BOOLEAN :
          IF rc0 THEN Step("stopwait_enter") /\ UNCHANGED <<svcResult, stopResult>>
                 ELSE StopReturn("ShellError")
    /\ UNCHANGED machineVars
    /\ UNCHANGED <<svcClock, setenvWritten, stopCaller, pendingError,
                   wait_current, wait_expired, count>>

\* wait_stop = loop_until_timeout(30)(wait_stop)
StopWaitEnter == WaitEnter("stopwait_enter", StopTimeout, "stopwait_test")

StopWaitTest ==
    /\ svcPc = "stopwait_test"
    /\ Step(IF WaitCond THEN "stopwait_check" ELSE "stop_kill")
    /\ UNCHANGED machineVars
    /\ UNCHANGED <<svcClock, svcResult, svcLog, setenvWritten, stopCaller,
                   stopResult, pendingError, wait_current, wait_expired,
                   count>>

\* wait_stop(): get_management_node_pid() is None
StopWaitCheck ==
    /\ svcPc = "stopwait_check"
    /\ IF ~nodeProc
          THEN StopReturn("ok")
          ELSE Step("stopwait_sleep") /\ UNCHANGED <<svcResult, stopResult>>
    /\ UNCHANGED machineVars
    /\ UNCHANGED <<svcClock, svcLog, setenvWritten, stopCaller, pendingError,
                   wait_current, wait_expired, count>>

StopWaitSleep == WaitSleep("stopwait_sleep", "stopwait_test")

\* pid = get_management_node_pid(); if pid: shell('kill -9 %s' % pid); a
\* failing kill ends the process through error() and sys.exit(1)
StopKill ==
    /\ svcPc = "stop_kill"
    /\ IF ~nodeProc
          THEN /\ StopReturn("ok")
               /\ UNCHANGED <<nodeProc, api, svcLog>>
          ELSE /\ svcLog' = Append(svcLog, "kill")
               /\ \E rc0 \in BOOLEAN :
                     IF rc0 THEN /\ nodeProc' = FALSE
                                 /\ api' = "down"
                                 /\ StopReturn("ok")
                            ELSE /\ UNCHANGED <<nodeProc, api>>
                                 /\ StopReturn("KillError")
    /\ UNCHANGED <<bootErrorLog, envFile, kairosExe, kairosProc, cassProc>>
    /\ UNCHANGED <<svcClock, setenvWritten, stopCaller, pendingError,
                   wait_current, wait_expired, count>>

\* ---- KairosdbCmd.stop

\* pid = self._status(args); if not pid: return
KairosStatus ==
    /\ svcPc = "kairos_status"
    /\ IF ~kairosProc THEN Finish("ok")
                      ELSE Step("kairos_exec") /\ svcResult' = svcResult
    /\ UNCHANGED machineVars
    /\ UNCHANGED <<svcClock, svcLog, setenvWritten, stopCaller, stopResult,
                   pendingError, wait_current, wait_expired, count>>

\* exe = ctl.get_env(KAIROSDB_EXEC) raises CtlError without the environment
\* file; os.path.exists(None) raises TypeError when the variable is unset;
\* then `kill pid` (no executable) or `bash exe stop`
KairosExec ==
    /\ svcPc = "kairos_exec"
    /\ IF ~envFile
          THEN Finish("ConfigError") /\ UNCHANGED <<svcLog, count>>
          ELSE IF kairosExe = "unset"
                  THEN Finish("TypeError") /\ UNCHANGED <<svcLog, count>>
                  ELSE /\ svcLog' = Append(svcLog,
                              IF kairosExe = "ok" THEN "kairosdb_stop"
                                                  ELSE "kill")
                       /\ \E rc0 \in BOOLEAN :
                             IF rc0 THEN /\ count' = KairosStopCount
                                         /\ Step("kairos_loop")
                                         /\ svcResult' = svcResult
                                    ELSE /\ count' = count
                                         /\ Finish("ShellError")
    /\ UNCHANGED machineVars
    /\ UNCHANGED <<svcClock, setenvWritten, stopCaller, stopResult,
                   pendingError, wait_current, wait_expired>>

\* while count > 0: pid = self._status(args); if not pid: return
KairosLoop ==
    /\ svcPc = "kairos_loop"
    /\ IF count > 0
          THEN IF ~kairosProc
                  THEN Finish("ok")
                  ELSE Step("kairos_sleep") /\ svcResult' = svcResult
          ELSE Step("kairos_kill") /\ svcResult' = svcResult
    /\ UNCHANGED machineVars
    /\ UNCHANGED <<svcClock, svcLog, setenvWritten, stopCaller, stopResult,
                   pendingError, wait_current, wait_expired, count>>

\* time.sleep(1); count -= 1
CountSleep(at, next) ==
    /\ svcPc = at
    /\ svcClock' = svcClock + 1
    /\ count' = count - 1
    /\ Step(next)
    /\ UNCHANGED machineVars
    /\ UNCHANGED <<svcResult, svcLog, setenvWritten, stopCaller, stopResult,
                   pendingError, wait_current, wait_expired>>

KairosSleep == CountSleep("kairos_sleep", "kairos_loop")

\* shell('kill -9 %s' % pid) on the pid seen by the last poll: it fails when
\* that process has ended meanwhile
KairosKill ==
    /\ svcPc = "kairos_kill"
    /\ svcLog' = Append(svcLog, "kill -9")
    /\ \E rc0 \in BOOLEAN :
          IF rc0 /\ kairosProc
             THEN kairosProc' = FALSE /\ Finish("ok")
             ELSE kairosProc' = kairosProc /\ Finish("ShellError")
    /\ UNCHANGED <<nodeProc, api, bootErrorLog, envFile, kairosExe, cassProc>>
    /\ UNCHANGED <<svcClock, setenvWritten, stopCaller, stopResult,
                   pendingError, wait_current, wait_expired, count>>

\* ---- CassandraCmd.stop

\* pid = self._status(args); if not pid: return
CassStatus ==
    /\ svcPc = "cass_status"
    /\ IF ~cassProc THEN Finish("ok")
                    ELSE Step("cass_term") /\ svcResult' = svcResult
    /\ UNCHANGED machineVars
    /\ UNCHANGED <<svcClock, svcLog, setenvWritten, stopCaller, stopResult,
                   pendingError, wait_current, wait_expired, count>>

\* shell('kill %s' % pid); count = 30
CassTerm ==
    /\ svcPc = "cass_term"
    /\ svcLog' = Append(svcLog, "kill")
    /\ \E rc0 \in BOOLEAN :
          IF rc0 THEN /\ count' = CassStopCount
                      /\ Step("cass_loop")
                      /\ svcResult' = svcResult
                 ELSE /\ count' = count
                      /\ Finish("ShellError")
    /\ UNCHANGED machineVars
    /\ UNCHANGED <<svcClock, setenvWritten, stopCaller, stopResult,
                   pendingError, wait_current, wait_expired>>

\* while count > 0: pid = self._status(args); if not pid: return
CassLoop ==
    /\ svcPc = "cass_loop"
    /\ IF count > 0
          THEN IF ~cassProc
                  THEN Finish("ok")
                  ELSE Step("cass_sleep") /\ svcResult' = svcResult
          ELSE Step("cass_kill") /\ svcResult' = svcResult
    /\ UNCHANGED machineVars
    /\ UNCHANGED <<svcClock, svcLog, setenvWritten, stopCaller, stopResult,
                   pendingError, wait_current, wait_expired, count>>

CassSleep == CountSleep("cass_sleep", "cass_loop")

\* shell('kill -9 %s' % pid) on the pid seen by the last poll
CassKill ==
    /\ svcPc = "cass_kill"
    /\ svcLog' = Append(svcLog, "kill -9")
    /\ \E rc0 \in BOOLEAN :
          IF rc0 /\ cassProc
             THEN cassProc' = FALSE /\ Finish("ok")
             ELSE cassProc' = cassProc /\ Finish("ShellError")
    /\ UNCHANGED <<nodeProc, api, bootErrorLog, envFile, kairosExe,
                   kairosProc>>
    /\ UNCHANGED <<svcClock, setenvWritten, stopCaller, stopResult,
                   pendingError, wait_current, wait_expired, count>>

\* ---- KairosdbCmd.start

\* start(): nothing to do with the process there; the executable must exist;
\* `bash exe start`; without --wait-timeout, or without the conf file, that
\* is all; else the port is read and the wait begins
KairosStart ==
    /\ svcPc = "kairos_start"
    /\ IF kairosProc
          THEN Finish("ok") /\ UNCHANGED <<kairosProc, svcLog, count>>
          ELSE IF ~envFile \/ kairosExe # "ok"
          THEN /\ Finish(IF ~envFile THEN "ConfigError"
                         ELSE IF kairosExe = "unset" THEN "TypeError"
                         ELSE "NotInstalled")
               /\ UNCHANGED <<kairosProc, svcLog, count>>
          ELSE /\ svcLog' = Append(svcLog, "kairosdb_start")
               /\ \E rc0 \in BOOLEAN, conf \in {"none", "noport", "ok"} :
                     IF ~rc0
                        THEN /\ Finish("ShellError")
                             /\ UNCHANGED <<kairosProc, count>>
                        ELSE /\ kairosProc' = TRUE
                             /\ IF argTimeout < 0 \/ conf = "none"
                                   THEN Finish("ok") /\ count' = count
                                   ELSE IF conf = "noport"
                                   THEN Finish("ConfigError") /\ count' = count
                                   ELSE /\ count' = argTimeout
                                        /\ Step("kairos_wait")
                                        /\ svcResult' = svcResult
    /\ UNCHANGED <<nodeProc, api, bootErrorLog, envFile, kairosExe, cassProc>>
    /\ UNCHANGED <<svcClock, setenvWritten, stopCaller, stopResult,
                   pendingError, wait_current, wait_expired>>

\* while args.wait_timeout > 0: netstat finds the port, or sleep; past the
\* loop the CtlError of the timeout is raised
TsWait(at, sleep) ==
    /\ svcPc = at
    /\ IF count > 0
          THEN \E listening \in BOOLEAN :
                  IF listening THEN Finish("ok")
                               ELSE Step(sleep) /\ svcResult' = svcResult
          ELSE Finish("StartupTimeout")
    /\ UNCHANGED machineVars
    /\ UNCHANGED <<svcClock, svcLog, setenvWritten, stopCaller, stopResult,
                   pendingError, wait_current, wait_expired, count>>

KairosWait == TsWait("kairos_wait", "kairos_wsleep")

KairosWaitSleep == CountSleep("kairos_wsleep", "kairos_wait")

\* ---- CassandraCmd.start

\* start(): nothing to do with the process there; CASSANDRA_EXEC must be
\* set; `cd bin && bash cassandra`; without a --wait-timeout above 0, or
\* without the conf file, that is all; else the wait begins
CassStart ==
    /\ svcPc = "cass_start"
    /\ IF cassProc
          THEN Finish("ok") /\ UNCHANGED <<cassProc, svcLog, count>>
          ELSE \E exe \in (IF envFile THEN {"unset", "ok"} ELSE {"nofile"}) :
             IF exe # "ok"
                THEN /\ Finish(IF exe = "nofile" THEN "ConfigError"
                               ELSE "NotInstalled")
                     /\ UNCHANGED <<cassProc, svcLog, count>>
                ELSE /\ svcLog' = Append(svcLog, "cassandra_start")
                     /\ \E rc0 \in BOOLEAN, conf \in BOOLEAN :
                           IF ~rc0
                              THEN /\ Finish("ShellError")
                                   /\ UNCHANGED <<cassProc, count>>
                              ELSE /\ cassProc' = TRUE
                                   /\ IF argTimeout <= 0 \/ ~conf
                                         THEN Finish("ok") /\ count' = count
                                         ELSE /\ count' = argTimeout
                                              /\ Step("cass_wait")
                                              /\ svcResult' = svcResult
    /\ UNCHANGED <<nodeProc, api, bootErrorLog, envFile, kairosExe, kairosProc>>
    /\ UNCHANGED <<svcClock, setenvWritten, stopCaller, stopResult,
                   pendingError, wait_current, wait_expired>>

CassWait == TsWait("cass_wait", "cass_wsleep")

CassWaitSleep == CountSleep("cass_wsleep", "cass_wait")

NextNode ==
    \/ EnvNodeProgress
    \/ EnvBootError
    \/ EnvNodeExit
    \/ EnvKairosExit
    \/ EnvCassExit
    \/ Invoke
    \/ Return
    \/ StartRmLog
    \/ StartGetPid
    \/ check_8080
    \/ check_msyql
    \/ check_rabbitmq
    \/ prepare_setenv
    \/ start_mgmt_node
    \/ StartBootSleep
    \/ StartWaitEnter
    \/ StartWaitTest
    \/ StartWaitCheck
    \/ StartWaitSleep
    \/ StartCleanup
    \/ StopGetPid
    \/ StopScript
    \/ StopWaitEnter
    \/ StopWaitTest
    \/ StopWaitCheck
    \/ StopWaitSleep
    \/ StopKill
    \/ KairosStatus
    \/ KairosExec
    \/ KairosLoop
    \/ KairosSleep
    \/ KairosKill
    \/ CassStatus
    \/ CassTerm
    \/ CassLoop
    \/ CassSleep
    \/ CassKill
    \/ KairosStart
    \/ KairosWait
    \/ KairosWaitSleep
    \/ CassStart
    \/ CassWait
    \/ CassWaitSleep


\* ----------------------------------------------------------- upgrade_db
Hosts == {"h1", "h2"}

\* heartBeat values of ManagementNodeVO; Absent marks a host without a row
Absent == -1

Beats == 0..MaxBeat

Registries == [Hosts -> Beats \cup {Absent}]

DbTools == {"mysqldump", "mysql"}

DbCommands == {"upgrade_db", "rollback_db"}

\* the schema version held by a dump of the previous version
DumpVersion == 0

DbCmdIdle ==
    /\ dbCmd = "none"
    /\ db_dump = FALSE
    /\ dbForce = FALSE
    /\ dbNoBackup = FALSE
    /\ dbDryRun = FALSE
    /\ dbResult = "none"
    /\ dbLog = <<>>
    /\ nodes = [h \in Hosts |-> Absent]
    /\ new_nodes = [h \in Hosts |-> Absent]
    /\ samples = 0
    /\ checkPassed = FALSE
    /\ dbClock = 0

DbInit ==
    /\ registry \in Registries
    /\ tools \in SUBSET DbTools
    /\ dbConfigured \in BOOLEAN
    /\ flywayInstalled \in BOOLEAN
    /\ schemaTable \in BOOLEAN
    /\ schemaVersion = 0
    /\ dbBackups = 0
    /\ dbRuns = 0
    /\ dbPc = "idle"
    /\ DbCmdIdle

DbIdle ==
    /\ registry = [h \in Hosts |-> Absent]
    /\ tools = {}
    /\ dbConfigured = FALSE
    /\ flywayInstalled = FALSE
    /\ schemaTable = FALSE
    /\ schemaVersion = 0
    /\ dbBackups = 0
    /\ dbRuns = 0
    /\ dbPc = "off"
    /\ DbCmdIdle

\* a step of upgrade_db that moves to `next`, leaving the other groups alone
DbStep(next) ==
    /\ dbPc' = next
    /\ UNCHANGED <<dbCmd, db_dump, dbForce, dbNoBackup, dbDryRun, dbRuns,
                   tools, dbConfigured, flywayInstalled>>
    /\ UNCHANGED notDb

\* the command ends with result r
DbFinish(r) ==
    /\ DbStep("done")
    /\ dbResult' = r

\* while the command sleeps, the management nodes rewrite their rows: a
\* heartbeat is updated, a node leaves, a node joins
EnvRegistryChange ==
    /\ dbPc = "grace_sleep"
    /\ \E h \in Hosts, v \in Beats \cup {Absent} :
          /\ v # registry[h]
          /\ registry' = [registry EXCEPT ![h] = v]
    /\ DbStep(dbPc)
    /\ UNCHANGED <<schemaTable, schemaVersion, dbBackups, dbResult, dbLog,
                   nodes, new_nodes, samples, checkPassed, dbClock>>

\* zstack-ctl upgrade_db [--force] [--no-backup X] [--dry-run], or
\* zstack-ctl rollback_db --db-dump F [--force]
DbInvoke ==
    /\ dbPc = "idle"
    /\ dbRuns < MaxDbRuns
    /\ dbRuns' = dbRuns + 1
    /\ dbCmd' \in DbCommands
    /\ dbForce' \in BOOLEAN
    /\ dbNoBackup' \in (IF dbCmd' = "upgrade_db" THEN BOOLEAN ELSE {FALSE})
    /\ dbDryRun' \in (IF dbCmd' = "upgrade_db" THEN BOOLEAN ELSE {FALSE})
    /\ db_dump' \in (IF dbCmd' = "rollback_db" THEN BOOLEAN ELSE {FALSE})
    /\ dbPc' = "db_tools"
    /\ UNCHANGED <<registry, tools, dbConfigured, flywayInstalled, schemaTable,
                   schemaVersion, dbBackups, dbResult, dbLog, nodes, new_nodes,
                   samples, checkPassed, dbClock>>
    /\ UNCHANGED notDb

DbReturn ==
    /\ dbPc = "done"
    /\ dbPc' = "idle"
    /\ dbCmd' = "none"
    /\ db_dump' = FALSE
    /\ dbForce' = FALSE
    /\ dbNoBackup' = FALSE
    /\ dbDryRun' = FALSE
    /\ dbResult' = "none"
    /\ dbLog' = <<>>
    /\ nodes' = [h \in Hosts |-> Absent]
    /\ new_nodes' = [h \in Hosts |-> Absent]
    /\ samples' = 0
    /\ checkPassed' = FALSE
    /\ dbClock' = 0
    /\ UNCHANGED <<registry, tools, dbConfigured, flywayInstalled, schemaTable,
                   schemaVersion, dbBackups, dbRuns>>
    /\ UNCHANGED notDb

\* RollbackDatabaseCmd.run with the running-node check left out
RollbackDbNextUnchecked(pc) ==
    CASE pc = "db_tools" -> "db_portal"
      [] pc = "db_portal" -> "rb_dump"
      [] pc = "db_check" -> "rb_dump"
      [] pc = "rb_dump" -> "rb_test"
      [] pc = "rb_test" -> "rb_load"
      [] OTHER -> "done"

\* RollbackDatabaseCmd.run: the statement that follows pc when pc passes
RollbackDbNext(pc) ==
    CASE pc = "db_tools" -> "db_portal"
      [] pc = "db_portal" -> "db_check"
      [] pc = "db_check" -> "rb_dump"
      [] pc = "rb_dump" -> "rb_test"
      [] pc = "rb_test" -> "rb_load"
      [] OTHER -> "done"

\* the statement that follows the step at pc, `next` in UpgradeDbCmd.run
DbNext(pc, next) ==
    IF dbCmd = "rollback_db" THEN RollbackDbNext(pc) ELSE next

\* upgrade_db: error_if_tool_is_missing('mysqldump') and ('mysql');
\* rollback_db: error_if_tool_is_missing('mysql')
DbNeeds == IF dbCmd = "rollback_db" THEN {"mysql"} ELSE DbTools

DbCheckTools ==
    /\ dbPc = "db_tools"
    /\ IF DbNeeds \subseteq tools
          THEN DbStep(DbNext("db_tools", "db_portal")) /\ dbResult' = dbResult
          ELSE DbFinish("ToolMissing")
    /\ UNCHANGED <<registry, schemaTable, schemaVersion, dbBackups, dbLog,
                   nodes, new_nodes, samples, checkPassed, dbClock>>

\* ctl.get_db_url(); ctl.get_database_portal()
DbPortal ==
    /\ dbPc = "db_portal"
    /\ IF dbConfigured
          THEN DbStep(DbNext("db_portal", "db_flyway")) /\ dbResult' = dbResult
          ELSE DbFinish("ConfigError")
    /\ UNCHANGED <<registry, schemaTable, schemaVersion, dbBackups, dbLog,
                   nodes, new_nodes, samples, checkPassed, dbClock>>

\* the flyway tool and the upgrade schema directory must exist
DbFlyway ==
    /\ dbPc = "db_flyway"
    /\ IF flywayInstalled
          THEN DbStep("db_check") /\ dbResult' = dbResult
          ELSE DbFinish("NotUpgraded")
    /\ UNCHANGED <<registry, schemaTable, schemaVersion, dbBackups, dbLog,
                   nodes, new_nodes, samples, checkPassed, dbClock>>

\* `if nodes`, never taken
NoNodes(sample) == FALSE

\* `if nodes`: the query returned at least one row
HasNodes(sample) == \E h \in Hosts : sample[h] # Absent

\* the heartbeat comparison, never finding a difference
HeartbeatNeverChanged(old, new) == FALSE

\* for n in new_nodes: for o in nodes:
\*     if o['hostname'] == n['hostname'] and o['heartBeat'] != n['heartBeat']
HeartbeatChanged(old, new) ==
    \E n \in Hosts, o \in Hosts :
        /\ new[n] # Absent
        /\ old[o] # Absent
        /\ o = n
        /\ old[o] # new[n]

\* check_if_management_node_has_stopped: nodes = get_nodes(), which raises
\* when the mysql query fails; then check() or the first half of bypass_check()
DbCheck ==
    /\ dbPc = "db_check"
    /\ \E queryOk \in BOOLEAN :
          IF ~queryOk
             THEN /\ DbFinish("QueryFailed")
                  /\ UNCHANGED <<nodes, samples, checkPassed>>
             ELSE /\ nodes' = registry
                  /\ samples' = samples + 1
                  /\ IF HasNodes(registry)
                        THEN IF dbForce
                                THEN /\ DbStep("grace_sleep")
                                     /\ UNCHANGED <<dbResult, checkPassed>>
                                ELSE /\ DbFinish("NodesStillRunning")
                                     /\ UNCHANGED checkPassed
                        ELSE /\ DbStep(DbNext("db_check", "db_dryrun"))
                             /\ checkPassed' = TRUE
                             /\ dbResult' = dbResult
    /\ UNCHANGED <<registry, schemaTable, schemaVersion, dbBackups, dbLog,
                   new_nodes, dbClock>>

\* time.sleep(10); new_nodes = get_nodes(); the comparison of the two samples
DbBypass ==
    /\ dbPc = "grace_sleep"
    /\ dbClock' = dbClock + GraceWait
    /\ \E queryOk \in BOOLEAN :
          IF ~queryOk
             THEN /\ DbFinish("QueryFailed")
                  /\ UNCHANGED <<new_nodes, samples, checkPassed>>
             ELSE /\ new_nodes' = registry
                  /\ samples' = samples + 1
                  /\ IF HeartbeatChanged(nodes, registry)
                        THEN /\ DbFinish("NodeStillAlive")
                             /\ UNCHANGED checkPassed
                        ELSE /\ DbStep(DbNext("db_check", "db_dryrun"))
                             /\ checkPassed' = TRUE
                             /\ dbResult' = dbResult
    /\ UNCHANGED <<registry, schemaTable, schemaVersion, dbBackups, dbLog,
                   nodes>>

\* the flag passed over: the run goes on to the backup
DbDryRunIgnored ==
    /\ dbPc = "db_dryrun"
    /\ DbStep("db_backup")
    /\ dbResult' = dbResult
    /\ UNCHANGED <<registry, schemaTable, schemaVersion, dbBackups, dbLog,
                   nodes, new_nodes, samples, checkPassed, dbClock>>

\* if args.dry_run: return True
DbDryRun ==
    /\ dbPc = "db_dryrun"
    /\ IF dbDryRun
          THEN DbFinish("ok")
          ELSE DbStep("db_backup") /\ dbResult' = dbResult
    /\ UNCHANGED <<registry, schemaTable, schemaVersion, dbBackups, dbLog,
                   nodes, new_nodes, samples, checkPassed, dbClock>>

\* backup_current_database(): skipped with --no-backup, else mysqldump
backup_current_database ==
    /\ dbPc = "db_backup"
    /\ IF dbNoBackup
          THEN /\ DbStep("db_baseline")
               /\ UNCHANGED <<dbBackups, dbLog, dbResult>>
          ELSE /\ dbLog' = Append(dbLog, "mysqldump")
               /\ \E rc0 \in BOOLEAN :
                     IF rc0 THEN /\ dbBackups' = dbBackups + 1
                                 /\ DbStep("db_baseline")
                                 /\ dbResult' = dbResult
                            ELSE /\ dbBackups' = dbBackups
                                 /\ DbFinish("ShellError")
    /\ UNCHANGED <<registry, schemaTable, schemaVersion, nodes, new_nodes,
                   samples, checkPassed, dbClock>>

\* the baseline run without looking for the table
create_schema_version_table_always ==
    /\ dbPc = "db_baseline"
    /\ dbLog' = Append(dbLog, "baseline")
    /\ \E rc0 \in BOOLEAN :
          IF rc0 THEN /\ schemaTable' = TRUE
                      /\ DbStep("db_migrate")
                      /\ dbResult' = dbResult
                 ELSE /\ schemaTable' = schemaTable
                      /\ DbFinish("ShellError")
    /\ UNCHANGED <<registry, schemaVersion, dbBackups, nodes, new_nodes,
                   samples, checkPassed, dbClock>>

\* create_schema_version_table_if_needed(): flyway baseline when the table
\* schema_version is not there
create_schema_version_table_if_needed ==
    /\ dbPc = "db_baseline"
    /\ \E showOk \in BOOLEAN, rc0 \in BOOLEAN :
          IF ~showOk
             THEN /\ DbFinish("ShellError")
                  /\ UNCHANGED <<schemaTable, dbLog>>
             ELSE IF schemaTable
                     THEN /\ DbStep("db_migrate")
                          /\ UNCHANGED <<schemaTable, dbLog, dbResult>>
                     ELSE /\ dbLog' = Append(dbLog, "baseline")
                          /\ IF rc0
                                THEN /\ schemaTable' = TRUE
                                     /\ DbStep("db_migrate")
                                     /\ dbResult' = dbResult
                                ELSE /\ schemaTable' = schemaTable
                                     /\ DbFinish("ShellError")
    /\ UNCHANGED <<registry, schemaVersion, dbBackups, nodes, new_nodes,
                   samples, checkPassed, dbClock>>

\* migrate(): flyway migrate brings the schema to the latest version
migrate ==
    /\ dbPc = "db_migrate"
    /\ dbLog' = Append(dbLog, "migrate")
    /\ \E rc0 \in BOOLEAN :
          IF rc0 THEN schemaVersion' = LatestVersion /\ DbFinish("ok")
                 ELSE schemaVersion' = schemaVersion /\ DbFinish("ShellError")
    /\ UNCHANGED <<registry, schemaTable, dbBackups, nodes, new_nodes,
                   samples, checkPassed, dbClock>>

\* if not os.path.exists(args.db_dump): raise CtlError
DbDumpExists ==
    /\ dbPc = "rb_dump"
    /\ IF db_dump
          THEN DbStep(RollbackDbNext("rb_dump")) /\ dbResult' = dbResult
          ELSE DbFinish("DumpNotFound")
    /\ UNCHANGED <<registry, schemaTable, schemaVersion, dbBackups, dbLog,
                   nodes, new_nodes, samples, checkPassed, dbClock>>

\* mysql -u root ... -e "select 1": cmd.raise_error() on a non-zero exit
DbTestServer ==
    /\ dbPc = "rb_test"
    /\ \E rc0 \in BOOLEAN :
          IF rc0 THEN DbStep(RollbackDbNext("rb_test")) /\ dbResult' = dbResult
                 ELSE DbFinish("ShellError")
    /\ UNCHANGED <<registry, schemaTable, schemaVersion, dbBackups, dbLog,
                   nodes, new_nodes, samples, checkPassed, dbClock>>

\* shell('mysql -u root ... -t zstack < %s' % args.db_dump): the tables of
\* the dump replace the current ones, the registry table among them; a load
\* that fails may have replaced some of them
DbLoadDump ==
    /\ dbPc = "rb_load"
    /\ dbLog' = Append(dbLog, "load")
    /\ \E rc0 \in BOOLEAN, r \in Registries, t \in {schemaTable, TRUE} :
          IF rc0 THEN /\ schemaVersion' = DumpVersion
                      /\ schemaTable' = t
                      /\ registry' = r
                      /\ DbFinish("ok")
                 ELSE /\ schemaVersion' \in {schemaVersion, DumpVersion}
                      /\ schemaTable' \in {schemaTable, t}
                      /\ registry' \in {registry, r}
                      /\ DbFinish("ShellError")
    /\ UNCHANGED <<dbBackups, nodes, new_nodes, samples, checkPassed, dbClock>>

NextDb ==
    \/ EnvRegistryChange
    \/ DbInvoke
    \/ DbReturn
    \/ DbCheckTools
    \/ DbPortal
    \/ DbFlyway
    \/ DbCheck
    \/ DbBypass
    \/ DbDryRun
    \/ backup_current_database
    \/ create_schema_version_table_if_needed
    \/ migrate
    \/ DbDumpExists
    \/ DbTestServer
    \/ DbLoadDump

\* ------------------------------------------ StopAllCmd and StartAllCmd
\* a stop that walks the services in the order of the start
StopOrderForward == <<"stop_cassandra", "stop_kairosdb", "stop_mgmt_node",
                      "stop_ui">>

\* StopAllCmd.run: stop_ui(), stop_mgmt_node(), stop_kairosdb(),
\* stop_cassandra()
StopOrder == <<"stop_ui", "stop_mgmt_node", "stop_kairosdb", "stop_cassandra">>

StartOrder == <<"start_cassandra", "start_kairosdb", "start_mgmt_node",
                "start_ui">>

TopoInit ==
    /\ nodeProc \in BOOLEAN
    /\ api \in (IF nodeProc THEN {"false", "true"} ELSE {"down"})
    /\ bootErrorLog = FALSE
    /\ envFile \in BOOLEAN
    /\ kairosExe \in (IF envFile THEN ExeStates ELSE {"unset"})
    /\ cassExe \in (IF envFile THEN ExeStates ELSE {"unset"})
    /\ kairosProc \in BOOLEAN
    /\ cassProc \in BOOLEAN
    /\ uiInstalled \in BOOLEAN
    /\ uiProc \in (IF uiInstalled THEN BOOLEAN ELSE {FALSE})
    /\ topoPc = "idle"
    /\ topoCmd = "none"
    /\ topoResult = "none"
    /\ topoLog = <<>>

TopoIdle ==
    /\ cassExe = "unset"
    /\ uiInstalled = FALSE
    /\ uiProc = FALSE
    /\ topoPc = "off"
    /\ topoCmd = "none"
    /\ topoResult = "none"
    /\ topoLog = <<>>

\* zstack-ctl stop | zstack-ctl start
TopoInvoke ==
    /\ topoPc = "idle"
    /\ \E c \in {"stop", "start"} :
          /\ topoCmd' = c
          /\ topoPc' = (IF c = "stop" THEN StopOrder[1] ELSE StartOrder[1])
    /\ topoResult' = "none"
    /\ topoLog' = <<>>
    /\ UNCHANGED <<cassExe, uiInstalled, uiProc>>
    /\ UNCHANGED machineVars
    /\ UNCHANGED notTopo

TopoReturn ==
    /\ topoPc = "done"
    /\ topoPc' = "idle"
    /\ topoCmd' = "none"
    /\ topoResult' = "none"
    /\ topoLog' = <<>>
    /\ UNCHANGED <<cassExe, uiInstalled, uiProc>>
    /\ UNCHANGED machineVars
    /\ UNCHANGED notTopo

\* the step after step number i of the running command
Following(i) ==
    IF i = 4 THEN "done"
    ELSE IF topoCmd = "stop" THEN StopOrder[i + 1] ELSE StartOrder[i + 1]

\* a run() in which every step is wrapped so that its failure is passed over
Tolerate(outcome, next) == next

\* the steps are plain consecutive calls: an exception raised by one of them
\* leaves run() at once
Propagate(outcome, next) == IF outcome = "fail" THEN "done" ELSE next

\* step number i, named step, ends with outcome: "skip", "ok" or "fail"
TopoStep(i, step, outcome) ==
    /\ topoLog' = Append(topoLog, <<step, outcome>>)
    /\ topoPc' = Propagate(outcome, Following(i))
    /\ topoResult' = (IF outcome = "fail" THEN "error"
                      ELSE IF Following(i) = "done" /\ topoResult = "none"
                              THEN "ok" ELSE topoResult)
    /\ UNCHANGED <<topoCmd, cassExe, uiInstalled, bootErrorLog, envFile,
                   kairosExe>>
    /\ UNCHANGED notTopo

\* ctl.get_env(name) followed by `if not exe or not os.path.exists(exe)`:
\* "fail" when the environment file is absent (PropertyFile raises), "skip"
\* when the variable is unset or its path is missing, else "run"
InstallMarker(exe) ==
    IF ~envFile THEN "fail" ELSE IF exe # "ok" THEN "skip" ELSE "run"

\* stop_ui(): skipped without the virtualenv; StopUiCmd.run kills the UI
\* process with kill -9, whose failure raises
stop_ui ==
    /\ topoPc = "stop_ui"
    /\ IF ~uiInstalled
          THEN TopoStep(1, "stop_ui", "skip") /\ uiProc' = uiProc
          ELSE \E rc0 \in BOOLEAN :
                  IF uiProc /\ ~rc0
                     THEN TopoStep(1, "stop_ui", "fail") /\ uiProc' = uiProc
                     ELSE TopoStep(1, "stop_ui", "ok") /\ uiProc' = FALSE
    /\ UNCHANGED <<nodeProc, api, kairosProc, cassProc>>

\* stop_mgmt_node(): StopCmd.run returns at once without a process; else
\* it stops the node, or fails in the stop script or in the kill
stop_mgmt_node ==
    /\ topoPc = "stop_mgmt_node"
    /\ IF ~nodeProc
          THEN TopoStep(2, "stop_mgmt_node", "ok") /\ UNCHANGED <<nodeProc, api>>
          ELSE \E rc0 \in BOOLEAN :
                  IF rc0 THEN /\ TopoStep(2, "stop_mgmt_node", "ok")
                              /\ nodeProc' = FALSE
                              /\ api' = "down"
                         ELSE /\ TopoStep(2, "stop_mgmt_node", "fail")
                              /\ UNCHANGED <<nodeProc, api>>
    /\ UNCHANGED <<uiProc, kairosProc, cassProc>>

\* stop_kairosdb(): the install marker, then KairosdbCmd.stop
stop_kairosdb ==
    /\ topoPc = "stop_kairosdb"
    /\ IF InstallMarker(kairosExe) # "run"
          THEN /\ TopoStep(3, "stop_kairosdb", InstallMarker(kairosExe))
               /\ kairosProc' = kairosProc
          ELSE \E rc0 \in BOOLEAN :
                  IF kairosProc /\ ~rc0
                     THEN /\ TopoStep(3, "stop_kairosdb", "fail")
                          /\ kairosProc' = kairosProc
                     ELSE /\ TopoStep(3, "stop_kairosdb", "ok")
                          /\ kairosProc' = FALSE
    /\ UNCHANGED <<nodeProc, api, uiProc, cassProc>>

\* stop_cassandra(): the install marker, then CassandraCmd.stop
stop_cassandra ==
    /\ topoPc = "stop_cassandra"
    /\ IF InstallMarker(cassExe) # "run"
          THEN /\ TopoStep(4, "stop_cassandra", InstallMarker(cassExe))
               /\ cassProc' = cassProc
          ELSE \E rc0 \in BOOLEAN :
                  IF cassProc /\ ~rc0
                     THEN /\ TopoStep(4, "stop_cassandra", "fail")
                          /\ cassProc' = cassProc
                     ELSE /\ TopoStep(4, "stop_cassandra", "ok")
                          /\ cassProc' = FALSE
    /\ UNCHANGED <<nodeProc, api, uiProc, kairosProc>>

\* start_cassandra(): the install marker, then CassandraCmd.start with
\* --wait-timeout 120: already running, started, or failed (the start
\* command failed, or the port was not listening in time)
start_cassandra ==
    /\ topoPc = "start_cassandra"
    /\ IF InstallMarker(cassExe) # "run"
          THEN /\ TopoStep(1, "start_cassandra", InstallMarker(cassExe))
               /\ cassProc' = cassProc
          ELSE IF cassProc
                  THEN /\ TopoStep(1, "start_cassandra", "ok")
                       /\ cassProc' = cassProc
                  ELSE \E rc0 \in BOOLEAN, up \in BOOLEAN :
                          /\ cassProc' = rc0
                          /\ TopoStep(1, "start_cassandra",
                                      IF rc0 /\ up THEN "ok" ELSE "fail")
    /\ UNCHANGED <<nodeProc, api, uiProc, kairosProc>>

\* start_kairosdb(): the install marker, then KairosdbCmd.start with
\* --wait-timeout 120
start_kairosdb ==
    /\ topoPc = "start_kairosdb"
    /\ IF InstallMarker(kairosExe) # "run"
          THEN /\ TopoStep(2, "start_kairosdb", InstallMarker(kairosExe))
               /\ kairosProc' = kairosProc
          ELSE IF kairosProc
                  THEN /\ TopoStep(2, "start_kairosdb", "ok")
                       /\ kairosProc' = kairosProc
                  ELSE \E rc0 \in BOOLEAN, up \in BOOLEAN :
                          /\ kairosProc' = rc0
                          /\ TopoStep(2, "start_kairosdb",
                                      IF rc0 /\ up THEN "ok" ELSE "fail")
    /\ UNCHANGED <<nodeProc, api, uiProc, cassProc>>

\* start_mgmt_node(): StartCmd.run returns at once for a running node; else
\* the node is started and answers, or the command fails
start_all_mgmt_node ==
    /\ topoPc = "start_mgmt_node"
    /\ IF nodeProc
          THEN /\ TopoStep(3, "start_mgmt_node", "ok")
               /\ UNCHANGED <<nodeProc, api>>
          ELSE \E started \in BOOLEAN :
                  IF started
                     THEN /\ TopoStep(3, "start_mgmt_node", "ok")
                          /\ nodeProc' = TRUE
                          /\ api' \in {"false", "true"}
                     ELSE /\ TopoStep(3, "start_mgmt_node", "fail")
                          /\ UNCHANGED <<nodeProc, api>>
    /\ UNCHANGED <<uiProc, kairosProc, cassProc>>

\* start_ui(): skipped without the virtualenv; else StartUiCmd.run
start_ui ==
    /\ topoPc = "start_ui"
    /\ IF ~uiInstalled
          THEN TopoStep(4, "start_ui", "skip") /\ uiProc' = uiProc
          ELSE \E rc0 \in BOOLEAN :
                  IF rc0 THEN TopoStep(4, "start_ui", "ok") /\ uiProc' = TRUE
                         ELSE TopoStep(4, "start_ui", "fail") /\ uiProc' = uiProc
    /\ UNCHANGED <<nodeProc, api, kairosProc, cassProc>>

NextTopo ==
    \/ TopoInvoke
    \/ TopoReturn
    \/ stop_ui
    \/ stop_mgmt_node
    \/ stop_kairosdb
    \/ stop_cassandra
    \/ start_cassandra
    \/ start_kairosdb
    \/ start_all_mgmt_node
    \/ start_ui

\* ------------- save_config, restore_config, upgrade_management_node (local)
Folders == {"d1"}

\* what the operator may have written into zstack.properties
Contents == {"p1", "p2"}

\* a file: no folder for it, not there, cut short by a failed copy, the one
\* shipped inside zstack.war, or one the operator wrote
FileStates == {"nodir", "absent", "torn", "default"} \cup Contents

OldVersion == "v1"

NewVersion == "v2"

\* an unpacked artifact: not there, incomplete, or one version's tree
TreeStates == {"absent", "torn", OldVersion, NewVersion}

NoTree == [war |-> "absent", props |-> "absent"]

UpgCommands == {"save_config", "restore_config", "upgrade_management_node",
                "rollback_management_node"}

\* the commands that take --war-file
WarCommands == {"upgrade_management_node", "rollback_management_node"}

UpgCmdIdle ==
    /\ upgCmd = "none"
    /\ argDir = "d1"
    /\ need_download = FALSE
    /\ upgResult = "none"
    /\ upgLog = <<>>
    /\ upgPre = [home |-> "absent", props |-> "absent"]
    /\ property_file = "none"
    /\ upgMessage = {}

UpgInit ==
    /\ nodeProc \in BOOLEAN
    /\ api \in (IF nodeProc THEN {"false", "true"} ELSE {"down"})
    /\ bootErrorLog = FALSE
    /\ envFile = FALSE
    /\ kairosExe = "unset"
    /\ kairosProc = FALSE
    /\ cassProc = FALSE
    /\ home \in {"absent", OldVersion}
    /\ props \in (IF home = "absent" THEN {"absent"}
                  ELSE Contents \cup {"absent"})
    /\ owner = "zstack"
    /\ saved = [d \in Folders |-> "nodir"]
    /\ lastSaved = [d \in Folders |-> "none"]
    /\ bkProps = "nodir"
    /\ bkTree = NoTree
    /\ webappWar = "absent"
    /\ savedWar = "absent"
    /\ ctlTools = OldVersion
    /\ upgTools \in SUBSET {"unzip", "wget"}
    /\ upgPc = "idle"
    /\ UpgCmdIdle

UpgIdle ==
    /\ home = "absent"
    /\ props = "absent"
    /\ owner = "zstack"
    /\ saved = [d \in Folders |-> "nodir"]
    /\ lastSaved = [d \in Folders |-> "none"]
    /\ bkProps = "nodir"
    /\ bkTree = NoTree
    /\ webappWar = "absent"
    /\ savedWar = "absent"
    /\ ctlTools = OldVersion
    /\ upgTools = {}
    /\ upgPc = "off"
    /\ UpgCmdIdle

\* between two commands the operator edits or deletes the live property file
EnvEditProps ==
    /\ upgPc = "idle"
    /\ home # "absent"
    /\ \E c \in Contents \cup {"absent"} : c # props /\ props' = c
    /\ UNCHANGED <<home, owner, saved, lastSaved, bkProps, bkTree, webappWar,
                   savedWar, ctlTools, upgTools, upgPc, upgCmd, argDir,
                   need_download, upgResult, upgLog, upgPre, property_file,
                   upgMessage>>
    /\ UNCHANGED machineVars
    /\ UNCHANGED notUpg

\* Ctl.run: _locate_zstack_home() raises when ZSTACK_HOME is no directory,
\* else the command runs
UpgInvoke ==
    /\ upgPc = "idle"
    /\ \E c \in UpgCommands, d \in Folders, dl \in BOOLEAN,
          pf \in {"none", "absent", "p1"} :
          /\ upgCmd' = c
          /\ argDir' = (IF c \in WarCommands THEN "d1" ELSE d)
          /\ need_download' = (IF c \in WarCommands THEN dl ELSE FALSE)
          /\ property_file' = (IF c = "rollback_management_node" THEN pf
                               ELSE "none")
          /\ upgPc' = (IF home = "absent" THEN "done"
                       ELSE IF c = "upgrade_management_node" THEN "prepare"
                       ELSE IF c = "rollback_management_node"
                               THEN "rb_prepare"
                       ELSE c)
    /\ upgResult' = (IF home = "absent" THEN "error" ELSE "none")
    /\ upgMessage' = (IF home = "absent" THEN {"zstack_home"} ELSE {})
    /\ upgLog' = <<>>
    /\ upgPre' = [home |-> home, props |-> props]
    /\ UNCHANGED <<home, props, owner, saved, lastSaved, bkProps, bkTree,
                   webappWar, savedWar, ctlTools, upgTools>>
    /\ UNCHANGED machineVars
    /\ UNCHANGED notUpg

UpgReturn ==
    /\ upgPc = "done"
    /\ upgPc' = "idle"
    /\ upgCmd' = "none"
    /\ argDir' = "d1"
    /\ need_download' = FALSE
    /\ upgResult' = "none"
    /\ upgLog' = <<>>
    /\ upgPre' = [home |-> "absent", props |-> "absent"]
    /\ property_file' = "none"
    /\ upgMessage' = {}
    /\ UNCHANGED <<home, props, owner, saved, lastSaved, bkProps, bkTree,
                   webappWar, savedWar, ctlTools, upgTools>>
    /\ UNCHANGED machineVars
    /\ UNCHANGED notUpg

\* a step whose failure is logged and passed over
UpgContinue(outcome, next) == next

\* shell() raises CtlError on a non-zero exit and nothing in run() or in
\* local_upgrade() catches it
UpgRaise(outcome, next) == IF outcome = "fail" THEN "done" ELSE next

\* the paths in the message of the CtlError a failing step raises: ShellCmd
\* puts the command line into it, the existence checks the path they missed
Mentions(step) ==
    CASE step \in {"save_config", "restore_config"} /\ upgCmd \notin WarCommands
            -> {"folder", "zstack_home"}
      [] step = "mkdir" -> {"tmp_dir"}
      [] step = "prepare" -> {"war_file"}
      [] step = "download_war_if_needed"
            -> IF need_download THEN {"tmp_dir"} ELSE {"war_file"}
      [] step \in {"backup", "backup_current_zstack"}
            -> {"zstack_home", "tmp_dir"}
      [] step = "save_property_file_if_needed"
            -> IF property_file = "none" THEN {"zstack_home", "tmp_dir"}
               ELSE {"property_file"}
      [] step = "restore_config"
            -> IF property_file = "none" THEN {"zstack_home", "tmp_dir"}
               ELSE {"zstack_home", "property_file"}
      [] step = "rm" -> {"zstack_home"}
      [] step = "cp" -> {"war_file"}
      [] step = "unzip"
            -> IF upgCmd = "upgrade_management_node" THEN {}
               ELSE IF need_download THEN {"zstack_home", "tmp_dir"}
               ELSE {"zstack_home", "war_file"}
      [] step \in {"install_tools", "chown_to_zstack"} -> {"zstack_home"}
      [] step = "save_new_war" -> {"zstack_home", "war_file"}
      [] OTHER -> {}

\* a step of the running command ends with outcome "ok" or "fail"
UpgStep(step, outcome, next) ==
    /\ upgLog' = Append(upgLog, <<step, outcome>>)
    /\ upgMessage' = (IF outcome = "fail" THEN Mentions(step) ELSE upgMessage)
    /\ property_file' = property_file
    /\ upgPc' = UpgRaise(outcome, next)
    /\ upgResult' = (IF outcome = "fail" THEN "error"
                     ELSE IF next = "done" /\ upgResult = "none" THEN "ok"
                     ELSE upgResult)
    /\ UNCHANGED <<upgCmd, argDir, need_download, upgPre, upgTools>>
    /\ UNCHANGED <<bootErrorLog, envFile, kairosExe, kairosProc, cassProc>>
    /\ UNCHANGED notUpg

Outcome(rc0) == IF rc0 THEN "ok" ELSE "fail"

\* cp that leaves a destination that already exists as it is
CopyKeep(src, old, new, rc0) ==
    IF src \in {"nodir", "absent"} THEN ~rc0 /\ new = old
    ELSE IF rc0 THEN new = (IF old \in {"nodir", "absent"} THEN src ELSE old)
    ELSE new \in {old, "torn"}

\* `yes | cp src dst` with exit code 0 (rc0) or not: without the source it
\* fails and writes nothing, on success the destination is the source,
\* a failure on the way leaves the destination as it was or cut short
Copy(src, old, new, rc0) ==
    IF src \in {"nodir", "absent"} THEN ~rc0 /\ new = old
    ELSE IF rc0 THEN new = src
    ELSE new \in {old, "torn"}

\* SaveConfigCmd.run as the top-level command
save_config ==
    /\ upgPc = "save_config"
    /\ \E mk \in BOOLEAN, rc0 \in BOOLEAN, new \in FileStates :
          IF saved[argDir] = "nodir" /\ ~mk
             THEN /\ UpgStep("save_config", "fail", "done")
                  /\ UNCHANGED <<saved, lastSaved>>
             ELSE /\ Copy(props,
                          IF saved[argDir] = "nodir" THEN "absent"
                          ELSE saved[argDir],
                          new, rc0)
                  /\ saved' = [saved EXCEPT ![argDir] = new]
                  /\ lastSaved' = [lastSaved EXCEPT ![argDir] =
                                      IF rc0 THEN props
                                      ELSE IF new = saved[argDir] THEN @
                                      ELSE "none"]
                  /\ UpgStep("save_config", Outcome(rc0), "done")
    /\ UNCHANGED <<home, props, owner, bkProps, bkTree, webappWar, savedWar,
                   ctlTools, nodeProc, api>>

\* restore_config with the two arguments of cp exchanged
restore_config_swapped ==
    /\ upgPc = "restore_config"
    /\ \E rc0 \in BOOLEAN, new \in FileStates :
          /\ saved[argDir] # "nodir"
          /\ Copy(props, saved[argDir], new, rc0)
          /\ saved' = [saved EXCEPT ![argDir] = new]
          /\ UpgStep("restore_config", Outcome(rc0), "done")
    /\ UNCHANGED <<home, props, owner, lastSaved, bkProps, bkTree, webappWar,
                   savedWar, ctlTools, nodeProc, api>>

\* RestoreConfigCmd.run as the top-level command: the folder's file is
\* copied over the live one; without the folder CtlError is raised
restore_config ==
    /\ upgPc = "restore_config"
    /\ \E rc0 \in BOOLEAN, new \in FileStates :
          IF saved[argDir] = "nodir"
             THEN /\ UpgStep("restore_config", "fail", "done")
                  /\ props' = props
             ELSE /\ Copy(saved[argDir], props, new, rc0)
                  /\ props' = new
                  /\ UpgStep("restore_config", Outcome(rc0), "done")
    /\ UNCHANGED <<home, owner, saved, lastSaved, bkProps, bkTree, webappWar,
                   savedWar, ctlTools, nodeProc, api>>

\* ---- UpgradeManagementNodeCmd.run without --host
\* the tools are looked up, upgrade_tmp_dir (named after the second the
\* command started in, so a new directory) is made, a local war file must
\* exist
prepare ==
    /\ upgPc = "prepare"
    /\ \E mkdir0 \in BOOLEAN, found \in BOOLEAN :
          IF \/ "unzip" \notin upgTools
             \/ need_download /\ "wget" \notin upgTools
             \/ ~mkdir0
             THEN /\ UpgStep(IF \/ "unzip" \notin upgTools
                                \/ need_download /\ "wget" \notin upgTools
                                THEN "error_if_tool_is_missing" ELSE "mkdir",
                             "fail", "backup")
                  /\ UNCHANGED <<bkProps, bkTree>>
             ELSE /\ bkProps' = "absent"
                  /\ bkTree' = NoTree
                  /\ UpgStep("prepare",
                             Outcome(need_download \/ found), "backup")
    /\ UNCHANGED <<home, props, owner, saved, lastSaved, webappWar, savedWar,
                   ctlTools, nodeProc, api>>

\* a copy that reports success and has written nothing
TreeCopyEmpty(h, p) == NoTree

\* what `cp -r ZSTACK_HOME upgrade_tmp_dir` writes when it exits with 0
TreeCopy(h, p) == [war |-> h, props |-> p]

\* backup(): save_config into upgrade_tmp_dir, then the copy of the tree
backup ==
    /\ upgPc = "backup"
    /\ \E rc0 \in BOOLEAN, rc1 \in BOOLEAN, new \in FileStates :
          /\ Copy(props, bkProps, new, rc0)
          /\ bkProps' = new
          /\ IF ~rc0
                THEN bkTree' = bkTree
                ELSE IF rc1
                THEN bkTree' = TreeCopy(home, props)
                ELSE bkTree' \in {NoTree,
                                  [war |-> "torn", props |-> "absent"],
                                  [war |-> "torn", props |-> props]}
          /\ UpgStep("backup", Outcome(rc0 /\ rc1), "download_war_if_needed")
    /\ UNCHANGED <<home, props, owner, saved, lastSaved, webappWar, savedWar,
                   ctlTools, nodeProc, api>>

\* download_war_if_needed(): wget -O upgrade_tmp_dir/new/zstack.war, into a
\* directory nothing has made, so that wget cannot open its output file
download_war_if_needed ==
    /\ upgPc = "download_war_if_needed"
    /\ UpgStep("download_war_if_needed",
               IF need_download THEN "fail" ELSE "ok", "stop_node")
    /\ UNCHANGED <<home, props, owner, saved, lastSaved, bkProps, bkTree,
                   webappWar, savedWar, ctlTools, nodeProc, api>>

\* the step passed over: the node is left as it is
stop_node_skipped ==
    /\ upgPc = "stop_node"
    /\ UpgStep("stop_node", "ok", "upgrade")
    /\ UNCHANGED <<nodeProc, api>>
    /\ UNCHANGED <<home, props, owner, saved, lastSaved, bkProps, bkTree,
                   webappWar, savedWar, ctlTools>>

\* stop_node(): StopCmd.run returns at once without a process; else it
\* stops the node, or fails in the stop script or in the kill
stop_node ==
    /\ upgPc = "stop_node"
    /\ IF ~nodeProc
          THEN UpgStep("stop_node", "ok", "upgrade") /\ UNCHANGED <<nodeProc, api>>
          ELSE \E rc0 \in BOOLEAN :
                  IF rc0 THEN /\ UpgStep("stop_node", "ok", "upgrade")
                              /\ nodeProc' = FALSE
                              /\ api' = "down"
                         ELSE /\ UpgStep("stop_node", "fail", "upgrade")
                              /\ UNCHANGED <<nodeProc, api>>
    /\ UNCHANGED <<home, props, owner, saved, lastSaved, bkProps, bkTree,
                   webappWar, savedWar, ctlTools>>

\* upgrade(): shell('rm -rf %s' % ctl.zstack_home)
upgrade_rm ==
    /\ upgPc = "upgrade"
    /\ \E rc0 \in BOOLEAN :
          /\ IF rc0 THEN home' = "absent" /\ props' = "absent"
                    ELSE home' \in {home, "torn"} /\ props' \in {props, "absent"}
          /\ UpgStep("rm", Outcome(rc0), "upgrade_cp")
    /\ UNCHANGED <<owner, saved, lastSaved, bkProps, bkTree, webappWar,
                   savedWar, ctlTools, nodeProc, api>>

\* upgrade(): shell('cp %s %s' % (new_war.path, webapp_dir))
upgrade_cp ==
    /\ upgPc = "upgrade_cp"
    /\ \E rc0 \in BOOLEAN :
          /\ IF rc0 THEN webappWar' = NewVersion
                    ELSE webappWar' \in {webappWar, "torn"}
          /\ UpgStep("cp", Outcome(rc0), "upgrade_unzip")
    /\ UNCHANGED <<home, props, owner, saved, lastSaved, bkProps, bkTree,
                   savedWar, ctlTools, nodeProc, api>>

\* upgrade(): ShellCmd('unzip zstack.war -d zstack', workdir=webapp_dir)();
\* the new tree belongs to root and holds the war's own property file
upgrade_unzip ==
    /\ upgPc = "upgrade_unzip"
    /\ \E rc0 \in BOOLEAN :
          /\ IF rc0 THEN home' = webappWar /\ props' = "default"
                    ELSE home' \in {home, "torn"} /\ props' \in {props, "default"}
          /\ owner' = (IF home' = "absent" THEN owner ELSE "root")
          /\ UpgStep("unzip", Outcome(rc0), "upg_restore_config")
    /\ UNCHANGED <<saved, lastSaved, bkProps, bkTree, webappWar, savedWar,
                   ctlTools, nodeProc, api>>

\* restore_config(): _locate_zstack_home() again, then the saved property
\* file is copied over the live one
upg_restore_config ==
    /\ upgPc = "upg_restore_config"
    /\ \E rc0 \in BOOLEAN, new \in FileStates :
          IF home = "absent"
             THEN /\ UpgStep("restore_config", "fail", "install_tools")
                  /\ props' = props
             ELSE /\ Copy(bkProps, props, new, rc0)
                  /\ props' = new
                  /\ UpgStep("restore_config", Outcome(rc0), "install_tools")
    /\ UNCHANGED <<home, owner, saved, lastSaved, bkProps, bkTree, webappWar,
                   savedWar, ctlTools, nodeProc, api>>

\* install_tools(): install.sh of the new tree, for zstack-cli and zstack-ctl
install_tools ==
    /\ upgPc = "install_tools"
    /\ \E isfile \in BOOLEAN, rc0 \in BOOLEAN, rc1 \in BOOLEAN :
          /\ ctlTools' = (IF ~isfile THEN ctlTools
                          ELSE IF rc0 /\ rc1 THEN home ELSE "torn")
          /\ UpgStep("install_tools", Outcome(isfile /\ rc0 /\ rc1),
                     "save_new_war")
    /\ UNCHANGED <<home, props, owner, saved, lastSaved, bkProps, bkTree,
                   webappWar, savedWar, nodeProc, api>>

\* save_new_war(): yes | cp new_war.path ZSTACK_HOME/../../../
save_new_war ==
    /\ upgPc = "save_new_war"
    /\ \E rc0 \in BOOLEAN :
          /\ savedWar' = (IF rc0 THEN NewVersion ELSE savedWar)
          /\ UpgStep("save_new_war", Outcome(rc0), "chown_to_zstack")
    /\ UNCHANGED <<home, props, owner, saved, lastSaved, bkProps, bkTree,
                   webappWar, ctlTools, nodeProc, api>>

\* chown_to_zstack(): chown -R zstack:zstack ZSTACK_HOME/../../
chown_to_zstack ==
    /\ upgPc = "chown_to_zstack"
    /\ \E rc0 \in BOOLEAN :
          /\ owner' = (IF rc0 THEN "zstack" ELSE owner)
          /\ UpgStep("chown_to_zstack", Outcome(rc0), "done")
    /\ UNCHANGED <<home, props, saved, lastSaved, bkProps, bkTree, webappWar,
                   savedWar, ctlTools, nodeProc, api>>

\* ---- RollbackManagementNodeCmd.run without --host
\* the rollback going from its checks to the stop of the node
rb_prepare_unsaved ==
    /\ upgPc = "rb_prepare"
    /\ bkProps' = "absent"
    /\ bkTree' = NoTree
    /\ UpgStep("prepare", "ok", "rb_stop_node")
    /\ UNCHANGED <<home, props, owner, saved, lastSaved, webappWar, savedWar,
                   ctlTools, nodeProc, api>>

\* unzip is looked up and rollback_tmp_dir, a new directory as well, is made
rb_prepare ==
    /\ upgPc = "rb_prepare"
    /\ \E mkdir0 \in BOOLEAN :
          IF "unzip" \notin upgTools \/ ~mkdir0
             THEN /\ UpgStep(IF "unzip" \notin upgTools
                                THEN "error_if_tool_is_missing" ELSE "mkdir",
                             "fail", "backup_current_zstack")
                  /\ UNCHANGED <<bkProps, bkTree>>
             ELSE /\ bkProps' = "absent"
                  /\ bkTree' = NoTree
                  /\ UpgStep("prepare", "ok", "backup_current_zstack")
    /\ UNCHANGED <<home, props, owner, saved, lastSaved, webappWar, savedWar,
                   ctlTools, nodeProc, api>>

\* backup_current_zstack(): cp -r ZSTACK_HOME rollback_tmp_dir
backup_current_zstack ==
    /\ upgPc = "backup_current_zstack"
    /\ \E rc0 \in BOOLEAN :
          /\ IF rc0
                THEN bkTree' = TreeCopy(home, props)
                ELSE bkTree' \in {NoTree,
                                  [war |-> "torn", props |-> "absent"],
                                  [war |-> "torn", props |-> props]}
          /\ UpgStep("backup_current_zstack", Outcome(rc0), "rb_download")
    /\ UNCHANGED <<home, props, owner, saved, lastSaved, bkProps, webappWar,
                   savedWar, ctlTools, nodeProc, api>>

\* download_war_if_needed(): wget into rollback_tmp_dir, a command the shell
\* cannot run when wget is not installed (nothing has looked it up), or the
\* local war file must exist
rb_download_war_if_needed ==
    /\ upgPc = "rb_download"
    /\ \E rc0 \in BOOLEAN :
          UpgStep("download_war_if_needed",
                  Outcome(rc0 /\ (need_download => "wget" \in upgTools)),
                  "save_property_file_if_needed")
    /\ UNCHANGED <<home, props, owner, saved, lastSaved, bkProps, bkTree,
                   webappWar, savedWar, ctlTools, nodeProc, api>>

\* save_property_file_if_needed(): save_config into rollback_tmp_dir, or
\* the file of --property-file must exist
save_property_file_if_needed ==
    /\ upgPc = "save_property_file_if_needed"
    /\ IF property_file = "none"
          THEN \E rc0 \in BOOLEAN, new \in FileStates :
                  /\ Copy(props, bkProps, new, rc0)
                  /\ bkProps' = new
                  /\ UpgStep("save_property_file_if_needed", Outcome(rc0),
                             "rb_stop_node")
          ELSE /\ bkProps' = bkProps
               /\ UpgStep("save_property_file_if_needed",
                          Outcome(property_file # "absent"), "rb_stop_node")
    /\ UNCHANGED <<home, props, owner, saved, lastSaved, bkTree, webappWar,
                   savedWar, ctlTools, nodeProc, api>>

\* stop_node() of the rollback
rb_stop_node ==
    /\ upgPc = "rb_stop_node"
    /\ IF ~nodeProc
          THEN UpgStep("stop_node", "ok", "rollback") /\ UNCHANGED <<nodeProc, api>>
          ELSE \E rc0 \in BOOLEAN :
                  IF rc0 THEN /\ UpgStep("stop_node", "ok", "rollback")
                              /\ nodeProc' = FALSE
                              /\ api' = "down"
                         ELSE /\ UpgStep("stop_node", "fail", "rollback")
                              /\ UNCHANGED <<nodeProc, api>>
    /\ UNCHANGED <<home, props, owner, saved, lastSaved, bkProps, bkTree,
                   webappWar, savedWar, ctlTools>>

\* rollback(): shell('rm -rf %s' % ctl.zstack_home)
rollback_rm ==
    /\ upgPc = "rollback"
    /\ \E rc0 \in BOOLEAN :
          /\ IF rc0 THEN home' = "absent" /\ props' = "absent"
                    ELSE home' \in {home, "torn"} /\ props' \in {props, "absent"}
          /\ UpgStep("rm", Outcome(rc0), "rollback_unzip")
    /\ UNCHANGED <<owner, saved, lastSaved, bkProps, bkTree, webappWar,
                   savedWar, ctlTools, nodeProc, api>>

\* rollback(): shell('unzip %s -d %s' % (war_path, ctl.zstack_home)), the
\* war being the previous version's
rollback_unzip ==
    /\ upgPc = "rollback_unzip"
    /\ \E rc0 \in BOOLEAN :
          /\ IF rc0 THEN home' = OldVersion /\ props' = "default"
                    ELSE home' \in {home, "torn"} /\ props' \in {props, "default"}
          /\ owner' = (IF home' = "absent" THEN owner ELSE "root")
          /\ UpgStep("unzip", Outcome(rc0), "rb_restore_config")
    /\ UNCHANGED <<saved, lastSaved, bkProps, bkTree, webappWar, savedWar,
                   ctlTools, nodeProc, api>>

\* restore_config() of the rollback: from the file of --property-file, or
\* from the one saved into rollback_tmp_dir
rb_restore_config ==
    /\ upgPc = "rb_restore_config"
    /\ \E rc0 \in BOOLEAN, new \in FileStates :
          IF home = "absent"
             THEN /\ UpgStep("restore_config", "fail", "rb_install_tools")
                  /\ props' = props
             ELSE /\ Copy(IF property_file = "none" THEN bkProps
                          ELSE property_file,
                          props, new, rc0)
                  /\ props' = new
                  /\ UpgStep("restore_config", Outcome(rc0),
                             "rb_install_tools")
    /\ UNCHANGED <<home, owner, saved, lastSaved, bkProps, bkTree, webappWar,
                   savedWar, ctlTools, nodeProc, api>>

\* install_tools() of the rollback, the last step
rb_install_tools ==
    /\ upgPc = "rb_install_tools"
    /\ \E isfile \in BOOLEAN, rc0 \in BOOLEAN, rc1 \in BOOLEAN :
          /\ ctlTools' = (IF ~isfile THEN ctlTools
                          ELSE IF rc0 /\ rc1 THEN home ELSE "torn")
          /\ UpgStep("install_tools", Outcome(isfile /\ rc0 /\ rc1), "done")
    /\ UNCHANGED <<home, props, owner, saved, lastSaved, bkProps, bkTree,
                   webappWar, savedWar, nodeProc, api>>

NextUpg ==
    \/ EnvEditProps
    \/ UpgInvoke
    \/ UpgReturn
    \/ save_config
    \/ restore_config
    \/ prepare
    \/ backup
    \/ download_war_if_needed
    \/ stop_node
    \/ upgrade_rm
    \/ upgrade_cp
    \/ upgrade_unzip
    \/ upg_restore_config
    \/ install_tools
    \/ save_new_war
    \/ chown_to_zstack
    \/ rb_prepare
    \/ backup_current_zstack
    \/ rb_download_war_if_needed
    \/ save_property_file_if_needed
    \/ rb_stop_node
    \/ rollback_rm
    \/ rollback_unzip
    \/ rb_restore_config
    \/ rb_install_tools

\* -------------------------------------------------------- UseUserZstack
\* zstack-ctl runs as root (Ctl.run refuses any other real user id)
Root == "root"

Zstack == "zstack"

\* the callers of use_user_zstack()
IdSites == {"delete_properties", "write_property", "write_properties",
            "setenv"}

IdCmdIdle ==
    /\ root_uid = "None"
    /\ root_gid = "None"
    /\ root_home = "None"
    /\ idSite = "none"
    /\ idRaised = "none"
    /\ idPre = [euid |-> Root, egid |-> Root, home |-> "unset"]

IdInit ==
    /\ euid = Root
    /\ egid = Root
    /\ homeEnv \in {"/root", "/home/admin", "unset"}
    /\ idPc = "idle"
    /\ IdCmdIdle

IdIdle ==
    /\ euid = Root
    /\ egid = Root
    /\ homeEnv = "unset"
    /\ idPc = "off"
    /\ IdCmdIdle

\* a step of the with statement that moves to `next`
IdStep(next) ==
    /\ idPc' = next
    /\ UNCHANGED <<idSite, idPre>>
    /\ UNCHANGED notId

\* an exception raised inside __init__ or __enter__ leaves the with
\* statement at once: __exit__ belongs to a block that was entered
IdRaise(e) ==
    /\ IdStep("out")
    /\ idRaised' = e

\* `with use_user_zstack():` is reached
IdInvoke ==
    /\ idPc = "idle"
    /\ \E c \in IdSites : idSite' = c
    /\ idPre' = [euid |-> euid, egid |-> egid, home |-> homeEnv]
    /\ idPc' = "init"
    /\ UNCHANGED <<euid, egid, homeEnv, root_uid, root_gid, root_home,
                   idRaised>>
    /\ UNCHANGED notId

\* the statement after the with statement, or the handler of its exception
IdReturn ==
    /\ idPc = "out"
    /\ idPc' = "idle"
    /\ root_uid' = "None"
    /\ root_gid' = "None"
    /\ root_home' = "None"
    /\ idSite' = "none"
    /\ idRaised' = "none"
    /\ idPre' = [euid |-> Root, egid |-> Root, home |-> "unset"]
    /\ UNCHANGED <<euid, egid, homeEnv>>
    /\ UNCHANGED notId

\* __init__: check_zstack_user() raises CtlError without the account
IdCheckUser ==
    /\ idPc = "init"
    /\ \E found \in BOOLEAN :
          IF found THEN IdStep("enter_save") /\ idRaised' = idRaised
                   ELSE IdRaise("CtlError")
    /\ UNCHANGED <<euid, egid, homeEnv, root_uid, root_gid, root_home>>

\* __enter__: os.getuid(), os.getgid(), os.environ['HOME']
EnterSave ==
    /\ idPc = "enter_save"
    /\ root_uid' = Root
    /\ root_gid' = Root
    /\ IF homeEnv = "unset"
          THEN IdRaise("KeyError") /\ root_home' = root_home
          ELSE /\ IdStep("enter_setegid")
               /\ root_home' = homeEnv
               /\ idRaised' = idRaised
    /\ UNCHANGED <<euid, egid, homeEnv>>

\* __enter__: os.setegid(grp.getgrnam('zstack').gr_gid); the lookup raises
\* KeyError and the call OSError
EnterSetegid ==
    /\ idPc = "enter_setegid"
    /\ \E e \in {"none", "KeyError", "OSError"} :
          IF e = "none"
             THEN /\ egid' = Zstack
                  /\ IdStep("enter_seteuid")
                  /\ idRaised' = idRaised
             ELSE egid' = egid /\ IdRaise(e)
    /\ UNCHANGED <<euid, homeEnv, root_uid, root_gid, root_home>>

\* __enter__: os.seteuid(pwd.getpwnam('zstack').pw_uid)
EnterSeteuid ==
    /\ idPc = "enter_seteuid"
    /\ \E e \in {"none", "KeyError", "OSError"} :
          IF e = "none"
             THEN /\ euid' = Zstack
                  /\ IdStep("enter_home")
                  /\ idRaised' = idRaised
             ELSE euid' = euid /\ IdRaise(e)
    /\ UNCHANGED <<egid, homeEnv, root_uid, root_gid, root_home>>

\* __enter__: os.environ['HOME'] = os.path.expanduser('~zstack')
EnterHome ==
    /\ idPc = "enter_home"
    /\ homeEnv' = "~zstack"
    /\ IdStep("body")
    /\ UNCHANGED <<euid, egid, root_uid, root_gid, root_home, idRaised>>

\* the body of the with statement completes or raises
IdBody ==
    /\ idPc = "body"
    /\ \E e \in {"none", "IOError"} : idRaised' = e
    /\ IdStep("exit_seteuid")
    /\ UNCHANGED <<euid, egid, homeEnv, root_uid, root_gid, root_home>>

\* __exit__: os.seteuid(self.root_uid)
ExitSeteuid ==
    /\ idPc = "exit_seteuid"
    /\ euid' = root_uid
    /\ IdStep("exit_setegid")
    /\ UNCHANGED <<egid, homeEnv, root_uid, root_gid, root_home, idRaised>>

\* __exit__: os.setegid(self.root_gid)
ExitSetegid ==
    /\ idPc = "exit_setegid"
    /\ egid' = root_gid
    /\ IdStep("exit_home")
    /\ UNCHANGED <<euid, homeEnv, root_uid, root_gid, root_home, idRaised>>

\* __exit__: os.environ['HOME'] = self.root_home; the exception of the body,
\* if any, goes on
ExitHome ==
    /\ idPc = "exit_home"
    /\ homeEnv' = root_home
    /\ IdStep("out")
    /\ UNCHANGED <<euid, egid, root_uid, root_gid, root_home, idRaised>>

NextId ==
    \/ IdInvoke
    \/ IdReturn
    \/ IdCheckUser
    \/ EnterSave
    \/ EnterSetegid
    \/ EnterSeteuid
    \/ EnterHome
    \/ IdBody
    \/ ExitSeteuid
    \/ ExitSetegid
    \/ ExitHome

\* ----------------------------------------------------------------- main
MainInit ==
    /\ mainPc = "main"
    /\ mainSteps \in 1..MaxSteps
    /\ mainDone = 0
    /\ mainRaised = "none"
    /\ cleanups \in 0..1
    /\ exit_code = "none"

MainIdle ==
    /\ mainPc = "off"
    /\ mainSteps = 1
    /\ mainDone = 0
    /\ mainRaised = "none"
    /\ cleanups = 0
    /\ exit_code = "none"

\* signal_handler(): sys.exit(0)
signal_handler == "SystemExit(0)"

\* ctl.run(): a real user id other than 0 raises CtlError, else the command
\* is found and called
CtlRun ==
    /\ mainPc = "main"
    /\ \E isRoot \in BOOLEAN :
          IF isRoot THEN mainPc' = "run" /\ mainRaised' = mainRaised
                    ELSE mainPc' = "except" /\ mainRaised' = "CtlError"
    /\ UNCHANGED <<mainSteps, mainDone, cleanups, exit_code>>
    /\ UNCHANGED notMain

\* a step of the command's run(): it completes, raises CtlError or another
\* exception, or reports through error(), which is sys.exit(1)
CmdStep ==
    /\ mainPc = "run"
    /\ mainDone < mainSteps
    /\ \E e \in {"none", "CtlError", "Exception", "SystemExit(1)"} :
          /\ mainRaised' = e
          /\ mainDone' = (IF e = "none" THEN mainDone + 1 ELSE mainDone)
          /\ mainPc' = (IF e = "none" THEN "run" ELSE "finally")
    /\ UNCHANGED <<mainSteps, cleanups, exit_code>>
    /\ UNCHANGED notMain

\* run() returns
CmdEnd ==
    /\ mainPc = "run"
    /\ mainDone = mainSteps
    /\ mainPc' = "finally"
    /\ UNCHANGED <<mainSteps, mainDone, mainRaised, cleanups, exit_code>>
    /\ UNCHANGED notMain

\* SIGINT arrives while the command runs or cleans up: the handler's
\* exception replaces whatever the interrupted code was doing
Sigint ==
    /\ mainPc \in {"run", "finally"}
    /\ mainRaised' = signal_handler
    /\ mainPc' = (IF mainPc = "run" THEN "finally" ELSE "except")
    /\ UNCHANGED <<mainSteps, mainDone, cleanups, exit_code>>
    /\ UNCHANGED notMain

\* Command.__call__: finally: for c in self.cleanup_routines: c()
Cleanup ==
    /\ mainPc = "finally"
    /\ cleanups' = 0
    /\ mainPc' = "except"
    /\ UNCHANGED <<mainSteps, mainDone, mainRaised, exit_code>>
    /\ UNCHANGED notMain

\* main(): except CtlError: error(str(e)); everything else ends the
\* interpreter, which exits with the code of SystemExit, with 1 after a
\* traceback, and with 0 when main() returns
MainExit ==
    /\ mainPc = "except"
    /\ exit_code' = CASE mainRaised = "none" -> 0
                      [] mainRaised = "SystemExit(0)" -> 0
                      [] OTHER -> 1
    /\ mainPc' = "exited"
    /\ UNCHANGED <<mainSteps, mainDone, mainRaised, cleanups>>
    /\ UNCHANGED notMain

NextMain ==
    \/ CtlRun
    \/ CmdStep
    \/ CmdEnd
    \/ Sigint
    \/ Cleanup
    \/ MainExit

\* --------------------------------------------- ShowStatusCmd (local)
\* what the readiness command may print: a reply with "true", with "false",
\* with both words, or with neither
Replies == {"true", "false", "true false", "other"}

StInit ==
    /\ what_tool \in {"wget", "curl", "none"}
    /\ return_code \in 0..1
    /\ stdout \in Replies
    /\ cmdline \in BOOLEAN
    /\ propertiesFile \in BOOLEAN
    /\ pidFile \in {"absent", "garbage", "dead", "alive"}
    /\ stPc = "check_zstack_status"
    /\ status = "none"

StIdle ==
    /\ what_tool = "none"
    /\ return_code = 0
    /\ stdout = "other"
    /\ cmdline = FALSE
    /\ propertiesFile = FALSE
    /\ pidFile = "absent"
    /\ stPc = "off"
    /\ status = "none"

\* get_management_node_pid(): the process found by its command line; else
\* the pid file named in zstack.properties (PropertyFile raises without that
\* file), whose pid counts when it is a number and /proc has it
ManagementNodePid ==
    IF cmdline THEN "pid"
    ELSE IF ~propertiesFile THEN "CtlError"
    ELSE IF pidFile = "alive" THEN "pid"
    ELSE "None"

\* a failing probe reported as Stopped without looking for the process
ProbeFailedStopped(pid) == "Stopped"

\* `if cmd.return_code != 0`: the zombie warning with a pid, else Stopped;
\* the CtlError of the lookup ends the command
ProbeFailed(pid) ==
    CASE pid = "pid" -> "Zombie"
      [] pid = "None" -> "Stopped"
      [] OTHER -> pid

\* the reply of a probe that succeeded: 'false' is looked for first
ProbeAnswered(out) ==
    IF out \in {"false", "true false"} THEN "Starting"
    ELSE IF out = "true" THEN "Running"
    ELSE "Unknown"

\* cmd = create_check_mgmt_node_command(); without wget and curl the
\* status cannot be detected; else the command is run
StatusProbe ==
    /\ stPc = "check_zstack_status"
    /\ IF what_tool = "none"
          THEN stPc' = "done" /\ status' = "cannot detect status"
          ELSE stPc' = "probed" /\ status' = status
    /\ UNCHANGED <<what_tool, return_code, stdout, cmdline, propertiesFile,
                   pidFile>>
    /\ UNCHANGED notSt

\* the verdict after cmd(False)
StatusVerdict ==
    /\ stPc = "probed"
    /\ status' = (IF return_code # 0 THEN ProbeFailed(ManagementNodePid)
                  ELSE ProbeAnswered(stdout))
    /\ stPc' = "done"
    /\ UNCHANGED <<what_tool, return_code, stdout, cmdline, propertiesFile,
                   pidFile>>
    /\ UNCHANGED notSt

NextStatus ==
    \/ StatusProbe
    \/ StatusVerdict

\* ------------------------------------------------ commands given --host
\* the commands that take --host and re-invoke zstack-ctl on the host
RemoteCommands == {"start_node", "stop_node", "upgrade_management_node",
                   "rollback_management_node"}

\* a war file is a path on this machine or an http url; a property file is
\* given or not
RemoteArgs == [timeout : 1..MaxStartTimeout, force : BOOLEAN,
               war_file : {"local", "http"}, property_file : {"none", "p1"}]

\* no command run on H; an option absent from a command line has the value
\* here
NoLine == [cmd |-> "none", timeout |-> 0, force |-> FALSE,
           war_file |-> "none", property_file |-> "none"]

RmInit ==
    /\ rmCmd \in RemoteCommands
    /\ rmArgs \in RemoteArgs
    /\ rmPc = "run"
    /\ rmLine = NoLine
    /\ src_war = "unset"

RmIdle ==
    /\ rmCmd = "none"
    /\ rmArgs = [timeout |-> 1, force |-> FALSE, war_file |-> "local",
                 property_file |-> "none"]
    /\ rmPc = "off"
    /\ rmLine = NoLine
    /\ src_war = "unset"

\* ssh H "/usr/bin/zstack-ctl start_node --timeout=%s" % args.timeout
_start_remote ==
    /\ rmPc = "run"
    /\ rmCmd = "start_node"
    /\ rmLine' = [NoLine EXCEPT !.cmd = "start_node",
                                !.timeout = rmArgs.timeout]
    /\ rmPc' = "done"
    /\ UNCHANGED <<rmCmd, rmArgs, src_war>>
    /\ UNCHANGED notRm

\* ssh H "/usr/bin/zstack-ctl stop_node --force" or "... stop_node"
_stop_remote ==
    /\ rmPc = "run"
    /\ rmCmd = "stop_node"
    /\ rmLine' = [NoLine EXCEPT !.cmd = "stop_node", !.force = rmArgs.force]
    /\ rmPc' = "done"
    /\ UNCHANGED <<rmCmd, rmArgs, src_war>>
    /\ UNCHANGED notRm

\* the playbook copies new_war.path to /tmp/zstack.war on H unless the war is
\* a url, then runs `zstack-ctl upgrade_management_node --war-file=$war_file`
remote_upgrade ==
    /\ rmPc = "run"
    /\ rmCmd = "upgrade_management_node"
    /\ \E copied \in BOOLEAN :
          rmLine' = (IF rmArgs.war_file = "local" /\ ~copied THEN NoLine
                     ELSE [NoLine EXCEPT !.cmd = "upgrade_management_node",
                                         !.war_file = rmArgs.war_file])
    /\ rmPc' = "done"
    /\ src_war' = rmArgs.war_file
    /\ UNCHANGED <<rmCmd, rmArgs>>
    /\ UNCHANGED notRm

\* src_war = rollbackinfo.war_path, which only local_rollback sets: with a
\* local war the copy task is given src=None and the play fails there; with a
\* url the host runs `zstack-ctl rollback_management_node --war-file=$war_file`
remote_rollback ==
    /\ rmPc = "run"
    /\ rmCmd = "rollback_management_node"
    /\ rmLine' = (IF rmArgs.war_file = "local" THEN NoLine
                  ELSE [NoLine EXCEPT !.cmd = "rollback_management_node",
                                      !.war_file = rmArgs.war_file])
    /\ rmPc' = "done"
    /\ src_war' = (IF rmArgs.war_file = "local" THEN "None"
                   ELSE rmArgs.war_file)
    /\ UNCHANGED <<rmCmd, rmArgs>>
    /\ UNCHANGED notRm

NextRemote ==
    \/ _start_remote
    \/ _stop_remote
    \/ remote_upgrade
    \/ remote_rollback

\* ------------------------- two start_node commands at the same time
\* StartCmd.run (ctl.py 1047-1152) takes no lock and keeps no state between
\* its steps but what it reads from the machine: two processes running it go
\* through the steps below in any interleaving
Procs == {"p1", "p2"}

RaceInit ==
    /\ racePc = [p \in Procs |-> "idle"]
    /\ raceNode = FALSE
    /\ racePort = FALSE
    /\ raceLaunched = 0
    /\ raceResult = [p \in Procs |-> "none"]

RaceIdle ==
    /\ racePc = [p \in Procs |-> "off"]
    /\ raceNode = FALSE
    /\ racePort = FALSE
    /\ raceLaunched = 0
    /\ raceResult = [p \in Procs |-> "none"]

RaceFrame == UNCHANGED <<pfVars, suVars>> /\ UNCHANGED notAux

\* process p leaves its step for next, or ends its run with result
RaceGo(p, next, result) ==
    /\ racePc' = [racePc EXCEPT ![p] = next]
    /\ raceResult' = [raceResult EXCEPT ![p] = result]
    /\ RaceFrame

\* the command is typed: run() removes the boot error log
RaceInvoke ==
    \E p \in Procs :
       /\ racePc[p] = "idle"
       /\ RaceGo(p, "getpid", "none")
       /\ UNCHANGED <<raceNode, racePort, raceLaunched>>

\* pid = get_management_node_pid(); if pid: 'already running', return
RaceGetPid ==
    \E p \in Procs :
       /\ racePc[p] = "getpid"
       /\ IF raceNode THEN RaceGo(p, "done", "already_running")
                      ELSE RaceGo(p, "check_8080", "none")
       /\ UNCHANGED <<raceNode, racePort, raceLaunched>>

\* check_8080(): netstat finds a listener on :8080 and the run fails
RaceCheck8080 ==
    \E p \in Procs :
       /\ racePc[p] = "check_8080"
       /\ IF racePort THEN RaceGo(p, "done", "error")
                      ELSE RaceGo(p, "checks", "none")
       /\ UNCHANGED <<raceNode, racePort, raceLaunched>>

\* check_msyql(), check_rabbitmq(), prepare_setenv(): any of them may raise
RaceChecks ==
    \E p \in Procs, ok \in BOOLEAN :
       /\ racePc[p] = "checks"
       /\ IF ok THEN RaceGo(p, "start", "none")
                ELSE RaceGo(p, "done", "error")
       /\ UNCHANGED <<raceNode, racePort, raceLaunched>>

\* start_mgmt_node(): shell('sudo -u zstack sh startup.sh -DappName=zstack')
RaceStart ==
    \E p \in Procs, rc0 \in BOOLEAN :
       /\ racePc[p] = "start"
       /\ raceLaunched' = raceLaunched + 1
       /\ raceNode' = (raceNode \/ rc0)
       /\ racePort' = racePort
       /\ IF rc0 THEN RaceGo(p, "wait", "none")
                 ELSE RaceGo(p, "done", "error")

\* the node that was started opens its port
RaceBind ==
    /\ raceNode
    /\ ~racePort
    /\ \E p \in Procs : racePc[p] # "off"
    /\ racePort' = TRUE
    /\ UNCHANGED <<racePc, raceNode, raceLaunched, raceResult>>
    /\ RaceFrame

\* time.sleep(5); wait_mgmt_node_start(); on CtlError stop_node is run and
\* the error raised again
RaceWait ==
    \E p \in Procs, ok \in BOOLEAN, killed \in BOOLEAN :
       /\ racePc[p] = "wait"
       /\ IF ok
             THEN /\ RaceGo(p, "done", "ok")
                  /\ UNCHANGED <<raceNode, racePort>>
             ELSE /\ RaceGo(p, "done", "error")
                  /\ raceNode' = (raceNode /\ ~killed)
                  /\ racePort' = (racePort /\ ~killed)
       /\ raceLaunched' = raceLaunched

NextRace ==
    \/ RaceInvoke
    \/ RaceGetPid
    \/ RaceCheck8080
    \/ RaceChecks
    \/ RaceStart
    \/ RaceBind
    \/ RaceWait

\* ------------------------------------ the property file seen through ctl
\* every method of Ctl builds a new PropertyFile, which parses the file
\* into self.config, and the write methods write self.config back whole
PropKeys == {"k1", "k2"}

PropValues == {"v1", "v2"}

NoValue == "None"

PropFiles == [PropKeys -> PropValues \cup {NoValue}]

PfInit ==
    /\ pfPresent \in BOOLEAN
    /\ pfFile \in (IF pfPresent THEN PropFiles
                                ELSE {[k \in PropKeys |-> NoValue]})
    /\ pfPc = "idle"
    /\ pfOp = "none"
    /\ pfArgs = <<>>
    /\ pfRet = "none"
    /\ pfPre = pfFile

PfIdle ==
    /\ pfPresent = FALSE
    /\ pfFile = [k \in PropKeys |-> NoValue]
    /\ pfPc = "off"
    /\ pfOp = "none"
    /\ pfArgs = <<>>
    /\ pfRet = "none"
    /\ pfPre = pfFile

PfFrame == UNCHANGED <<raceVars, suVars>> /\ UNCHANGED notAux

\* a method of Ctl is called with args; PropertyFile.__init__ raises CtlError
\* when the file is not there
PfCall(op, args) ==
    /\ pfPc = "idle"
    /\ pfOp' = op
    /\ pfArgs' = args
    /\ pfPre' = pfFile
    /\ pfPc' = "done"
    /\ pfPresent' = pfPresent
    /\ PfFrame

\* Ctl.read_property(key): self.config.get(key, None)
read_property ==
    \E k \in PropKeys :
       /\ PfCall("read_property", <<k>>)
       /\ pfRet' = (IF ~pfPresent THEN "CtlError" ELSE pfFile[k])
       /\ pfFile' = pfFile

\* self.config after `for key, value in lst: self.config[key] = value`
RECURSIVE Assigned(_, _)
Assigned(config, lst) ==
    IF lst = <<>> THEN config
    ELSE Assigned([config EXCEPT ![lst[1][1]] = lst[1][2]], Tail(lst))

\* Ctl.write_properties(lst): each pair is assigned and the file written;
\* the write may fail (no zstack account, no permission) and raise
write_properties ==
    \E lst \in UNION {[1..n -> PropKeys \X PropValues] : n \in 1..2},
       ok \in BOOLEAN :
       /\ PfCall("write_properties", lst)
       /\ IF ~pfPresent \/ ~ok
             THEN pfFile' = pfFile /\ pfRet' = "CtlError"
             ELSE pfFile' = Assigned(pfFile, lst) /\ pfRet' = "returned"

\* Ctl.write_property(key, value): a PropertyFile is built and the method
\* ends there, nothing is assigned and nothing written
write_property ==
    \E k \in PropKeys, v \in PropValues :
       /\ PfCall("write_property", <<<<k, v>>>>)
       /\ pfRet' = (IF ~pfPresent THEN "CtlError" ELSE "returned")
       /\ pfFile' = pfFile

\* the next command
PfReturn ==
    /\ pfPc = "done"
    /\ pfPc' = "idle"
    /\ UNCHANGED <<pfPresent, pfFile, pfOp, pfArgs, pfRet, pfPre>>
    /\ PfFrame

NextProp ==
    \/ read_property
    \/ write_properties
    \/ write_property
    \/ PfReturn

\* ------------------------------------------------ StartUiCmd.run, local
SuInit ==
    /\ suIps \in BOOLEAN
    /\ suVenv \in BOOLEAN
    /\ suProc \in BOOLEAN
    /\ suPidFile \in (IF suProc THEN {"absent", "live", "stale"}
                                ELSE {"absent", "stale"})
    /\ suPc = "idle"
    /\ suLaunched = FALSE
    /\ suClock = 0
    /\ suWrote = FALSE
    /\ suReport = "none"

SuIdle ==
    /\ suIps = FALSE
    /\ suVenv = FALSE
    /\ suProc = FALSE
    /\ suPidFile = "absent"
    /\ suPc = "off"
    /\ suLaunched = FALSE
    /\ suClock = 0
    /\ suWrote = FALSE
    /\ suReport = "none"

SuFrame == UNCHANGED <<raceVars, pfVars>> /\ UNCHANGED notAux

\* run() ends here, having told the user report
SuEnd(report) ==
    /\ suPc' = "done"
    /\ suReport' = report

\* run(): no RabbitMQ IPs, or no virtualenv: CtlError
SuInvoke ==
    /\ suPc = "idle"
    /\ suLaunched' = FALSE
    /\ suWrote' = FALSE
    /\ suClock' = 0
    /\ IF ~suIps \/ ~suVenv THEN SuEnd("CtlError")
                            ELSE suPc' = "_check_status" /\ suReport' = "none"
    /\ UNCHANGED <<suIps, suVenv, suProc, suPidFile>>
    /\ SuFrame

\* _check_status(): the pid of PID_FILE is alive: 'still running', return;
\* else a process found by its command line is killed with kill -9
_check_status ==
    /\ suPc = "_check_status"
    /\ IF suPidFile = "live"
          THEN SuEnd("still_running") /\ suProc' = suProc
          ELSE \E rc0 \in BOOLEAN :
                  IF suProc /\ ~rc0
                     THEN SuEnd("CtlError") /\ suProc' = suProc
                     ELSE /\ suPc' = "launch"
                          /\ suReport' = "none"
                          /\ suProc' = FALSE
    /\ UNCHANGED <<suIps, suVenv, suPidFile, suLaunched, suClock, suWrote>>
    /\ SuFrame

\* the iptables rule, then script(scmd): nohup python ... & returns at once
SuLaunch ==
    /\ suPc = "launch"
    /\ \E rc0 \in BOOLEAN :
          IF rc0 THEN /\ suPc' = "write_pid"
                      /\ suReport' = "none"
                      /\ suLaunched' = TRUE
                 ELSE SuEnd("CtlError") /\ suLaunched' = suLaunched
    /\ suClock' = 0
    /\ UNCHANGED <<suIps, suVenv, suProc, suPidFile, suWrote>>
    /\ SuFrame

\* the dashboard launched by the script shows up among the processes
SuAppear ==
    /\ suLaunched
    /\ suPc \in {"write_pid", "report"}
    /\ ~suProc
    /\ suProc' = TRUE
    /\ UNCHANGED <<suIps, suVenv, suPidFile, suPc, suLaunched, suClock,
                   suWrote, suReport>>
    /\ SuFrame

\* @loop_until_timeout(5, 0.5) write_pid(): while current_time < expired
\* (ten half seconds), the pid found is written and True returned, else the
\* loop sleeps for the interval or longer; after the loop False is returned
write_pid ==
    /\ suPc = "write_pid"
    /\ IF suClock < 10
          THEN IF suProc
                  THEN /\ suPidFile' = "live"
                       /\ suWrote' = TRUE
                       /\ suPc' = "report"
                       /\ suClock' = suClock
                  ELSE /\ \E d \in 1..2 : suClock' = suClock + d
                       /\ UNCHANGED <<suPidFile, suWrote, suPc>>
          ELSE /\ suPc' = "report"
               /\ UNCHANGED <<suPidFile, suWrote, suClock>>
    /\ UNCHANGED <<suIps, suVenv, suProc, suLaunched, suReport>>
    /\ SuFrame

\* write_pid(); pid = find_process_by_cmdline('zstack_dashboard');
\* info('successfully started UI server on the local host, PID[%s]' % pid)
SuReport ==
    /\ suPc = "report"
    /\ SuEnd("success")
    /\ UNCHANGED <<suIps, suVenv, suProc, suPidFile, suLaunched, suClock,
                   suWrote>>
    /\ SuFrame

\* the next command; meanwhile the dashboard may have exited
SuReturn ==
    /\ suPc = "done"
    /\ suPc' = "idle"
    /\ \E dies \in BOOLEAN :
          /\ suProc' = (suProc /\ ~dies)
          /\ suPidFile' = (IF suPidFile = "live" /\ dies THEN "stale"
                           ELSE suPidFile)
    /\ UNCHANGED <<suIps, suVenv, suLaunched, suClock, suWrote, suReport>>
    /\ SuFrame

NextUi ==
    \/ SuInvoke
    \/ _check_status
    \/ SuLaunch
    \/ SuAppear
    \/ write_pid
    \/ SuReport
    \/ SuReturn

AuxIdle == RaceIdle /\ PfIdle /\ SuIdle

AllIdle ==
    LoopIdle /\ SvcIdle /\ DbIdle /\ TopoIdle /\ UpgIdle /\ IdIdle /\ MainIdle
    /\ StIdle /\ RmIdle

\* ------------------------------------------------------- specifications
InitLoop ==
    LoopInit /\ SvcIdle /\ DbIdle /\ TopoIdle /\ UpgIdle /\ IdIdle /\ MainIdle
    /\ StIdle /\ RmIdle /\ AuxIdle

SpecLoop == InitLoop /\ [][NextLoop]_vars

InitNode ==
    LoopIdle /\ SvcInit /\ DbIdle /\ TopoIdle /\ UpgIdle /\ IdIdle /\ MainIdle
    /\ StIdle /\ RmIdle /\ AuxIdle

SpecNode == InitNode /\ [][NextNode]_vars

InitDb ==
    LoopIdle /\ SvcIdle /\ DbInit /\ TopoIdle /\ UpgIdle /\ IdIdle /\ MainIdle
    /\ StIdle /\ RmIdle /\ AuxIdle

SpecDb == InitDb /\ [][NextDb]_vars

InitTopo ==
    LoopIdle /\ CmdOff /\ DbIdle /\ TopoInit /\ UpgIdle /\ IdIdle /\ MainIdle
    /\ StIdle /\ RmIdle /\ AuxIdle

SpecTopo == InitTopo /\ [][NextTopo]_vars

InitUpg ==
    LoopIdle /\ CmdOff /\ DbIdle /\ TopoIdle /\ UpgInit /\ IdIdle /\ MainIdle
    /\ StIdle /\ RmIdle /\ AuxIdle

SpecUpg == InitUpg /\ [][NextUpg]_vars

InitId ==
    LoopIdle /\ SvcIdle /\ DbIdle /\ TopoIdle /\ UpgIdle /\ IdInit /\ MainIdle
    /\ StIdle /\ RmIdle /\ AuxIdle

SpecId == InitId /\ [][NextId]_vars

InitMain ==
    LoopIdle /\ SvcIdle /\ DbIdle /\ TopoIdle /\ UpgIdle /\ IdIdle /\ MainInit
    /\ StIdle /\ RmIdle /\ AuxIdle

InitStatus ==
    LoopIdle /\ SvcIdle /\ DbIdle /\ TopoIdle /\ UpgIdle /\ IdIdle /\ MainIdle
    /\ StInit /\ RmIdle /\ AuxIdle

SpecStatus == InitStatus /\ [][NextStatus]_vars

SpecMain == InitMain /\ [][NextMain]_vars

InitRemote ==
    LoopIdle /\ SvcIdle /\ DbIdle /\ TopoIdle /\ UpgIdle /\ IdIdle /\ MainIdle
    /\ StIdle /\ RmInit /\ AuxIdle

SpecRemote == InitRemote /\ [][NextRemote]_vars

InitRace == AllIdle /\ RaceInit /\ PfIdle /\ SuIdle

SpecRace == InitRace /\ [][NextRace]_vars

InitProp == AllIdle /\ RaceIdle /\ PfInit /\ SuIdle

SpecProp == InitProp /\ [][NextProp]_vars

InitUi == AllIdle /\ RaceIdle /\ PfIdle /\ SuInit

SpecUi == InitUi /\ [][NextUi]_vars

\* the commands that back up before they change the installation or the
\* schema: a run of upgrade_db, or runs of the commands on the installation
InitBackup == InitUpg \/ InitDb

NextBackup == NextUpg \/ NextDb

SpecBackup == InitBackup /\ [][NextBackup]_vars

\* the first polling instant at or after t: the polls fall on the multiples
\* of the interval
FirstPoll(t, i) == ((t + i - 1) \div i) * i

\* C1 (as stated): the wrapper returns True iff the predicate becomes true at
\* some t <= timeout, and then the elapsed time lies in [t, t + interval].
C1_Original ==
    loopPc = "done" =>
        /\ (loopRet = "True") <=> (becomesTrue <= timeout)
        /\ (loopRet = "True") =>
               (becomesTrue <= clock /\ clock <= becomesTrue + interval)

\* C1 (amended): the wrapper returns True iff the first polling instant at or
\* after t (the least multiple of the interval that is >= t) is strictly
\* before the timeout; when it returns True the elapsed time lies in
\* [t, t + interval].
C1_PollBound ==
    loopPc = "done" =>
        /\ (loopRet = "True") <=> (FirstPoll(becomesTrue, interval) < timeout)
        /\ (loopRet = "True") =>
               (becomesTrue <= clock /\ clock <= becomesTrue + interval)

\* a run that returned True after at least one sleep
C1_Witness ==
    /\ loopPc = "done"
    /\ loopRet = "True"
    /\ becomesTrue > 0
    /\ calls >= 2

Range(q) == {q[i] : i \in DOMAIN q}

\* C2: start_node with readiness timeout N on a stopped node whose probe never
\* succeeds fails with the startup-timeout error only after at least N
\* seconds, after stop_node has been run, and with the node Stopped.
C2_TimeoutLeavesStopped ==
    (/\ svcPc = "done"
     /\ svcCmd = "start_node"
     /\ ~pre.nodeProc
     /\ svcResult = "StartupTimeout") =>
        /\ svcClock >= argTimeout
        /\ "stop_node" \in Range(svcLog)
        /\ ~nodeProc

C9_StartRunningNoEffect ==
    (/\ svcPc = "done"
     /\ svcCmd = "start_node"
     /\ pre.nodeProc) =>
        /\ svcResult = "ok"
        /\ Range(svcLog) \cap {"check_8080", "check_msyql", "check_rabbitmq",
                               "startup"} = {}
        /\ ~setenvWritten
        /\ bootErrorLog = pre.bootErrorLog

\* C3: upgrade_db with force=false, run while ManagementNodeVO holds at least
\* one row, always fails, performs no database backup, no baseline and no
\* migration, and - whenever it gets as far as reading the registry - fails
\* with the nodes-still-running error.
C3_NoForceBlocks ==
    (/\ dbPc = "done"
     /\ dbCmd = "upgrade_db"
     /\ ~dbForce
     /\ \E h \in Hosts : registry[h] # Absent) =>
        /\ dbResult # "ok"
        /\ dbLog = <<>>
        /\ ~checkPassed
        /\ samples > 0 => dbResult = "NodesStillRunning"

\* a non-forced run that read a non-empty registry and was refused
C3_Witness ==
    /\ dbPc = "done"
    /\ dbCmd = "upgrade_db"
    /\ ~dbForce
    /\ ~dbDryRun
    /\ samples = 1
    /\ \E h \in Hosts : nodes[h] # Absent
    /\ dbResult = "NodesStillRunning"

\* some node present in both samples has a different heartbeat
C4_Changed ==
    \E h \in Hosts :
        /\ nodes[h] # Absent
        /\ new_nodes[h] # Absent
        /\ nodes[h] # new_nodes[h]

\* C4: upgrade_db with force=true and registry rows present: if every node
\* present in both samples (taken 10s apart) has an unchanged heartbeat the
\* check passes and migration proceeds; if any such heartbeat changed the
\* command fails with the node-still-alive error and no backup, baseline or
\* migration is performed.
C4_ForceHeartbeat ==
    (/\ dbPc = "done"
     /\ dbCmd = "upgrade_db"
     /\ dbForce
     /\ samples = 2) =>
        /\ dbClock >= GraceWait
        /\ \E h \in Hosts : nodes[h] # Absent
        /\ C4_Changed =>
              /\ dbResult = "NodeStillAlive"
              /\ dbLog = <<>>
              /\ ~checkPassed
        /\ ~C4_Changed =>
              /\ checkPassed
              /\ dbResult \in {"ok", "ShellError"}
              /\ dbDryRun => dbResult = "ok" /\ dbLog = <<>>
              /\ (~dbDryRun /\ dbResult = "ok") =>
                    /\ dbLog[Len(dbLog)] = "migrate"
                    /\ schemaVersion = LatestVersion

\* a forced run in which a node kept its heartbeat over the grace wait and
\* the migration was run
C4_Witness ==
    /\ dbPc = "done"
    /\ dbCmd = "upgrade_db"
    /\ dbForce
    /\ samples = 2
    /\ \E h \in Hosts : nodes[h] # Absent /\ new_nodes[h] = nodes[h]
    /\ ~C4_Changed
    /\ "migrate" \in Range(dbLog)
    /\ dbResult = "ok"

\* the steps of the running topology command, in the order of its run()
C6_Order == IF topoCmd = "stop" THEN StopOrder ELSE StartOrder

C7_StopWithoutTimeSeries ==
    (/\ topoPc = "done"
     /\ topoCmd = "stop"
     /\ ~envFile \/ (kairosExe # "ok" /\ cassExe # "ok")
     /\ Len(topoLog) >= 2
     /\ topoLog[1][2] # "fail"
     /\ topoLog[2][2] # "fail") =>
        /\ topoResult = "ok"
        /\ Len(topoLog) = 4
        /\ topoLog[3][2] = "skip"
        /\ topoLog[4][2] = "skip"
        /\ ~nodeProc
        /\ ~uiProc

\* ---- C5: a failure while the artifact is replaced
C5_Replacing == {"rm", "cp", "unzip"}

\* C5: when the local upgrade_management_node fails while it removes the old
\* artifact, copies or unzips the new one, the command ends in failure, that
\* step is the last one it takes, and upgrade_tmp_dir still holds the property
\* file and the artifact tree as they were before the upgrade
C5_ReplacingFailureKeepsBackup ==
    \A i \in 1..Len(upgLog) :
       ( /\ upgCmd = "upgrade_management_node"
         /\ upgLog[i][1] \in C5_Replacing
         /\ upgLog[i][2] = "fail" )
       => /\ i = Len(upgLog)
          /\ upgPc = "done"
          /\ upgResult = "error"
          /\ bkProps = upgPre.props
          /\ bkTree = [war |-> upgPre.home, props |-> upgPre.props]

C5_Witness ==
    /\ upgPc = "done"
    /\ upgCmd = "upgrade_management_node"
    /\ Len(upgLog) = 7
    /\ upgLog[7] = <<"unzip", "fail">>
    /\ home = "torn"
    /\ bkTree.war = OldVersion
    /\ bkProps \in Contents

\* ---- C10: what is saved is what is restored
\* C10: after save_config to a folder succeeded, whatever happens to the live
\* property file, a restore_config from that folder that succeeds leaves the
\* live property file as it was when it was saved; and once the backup step
\* of the upgrade succeeded, the tree in upgrade_tmp_dir is the artifact as
\* it was at backup time
C10_RoundTrip ==
    /\ ( /\ upgPc = "done"
         /\ upgCmd = "restore_config"
         /\ upgResult = "ok"
         /\ lastSaved[argDir] # "none" )
       => props = lastSaved[argDir]
    /\ ( /\ upgCmd = "upgrade_management_node"
         /\ Len(upgLog) >= 2
         /\ upgLog[2] = <<"backup", "ok">> )
       => bkTree = [war |-> upgPre.home, props |-> upgPre.props]

C10_Witness ==
    /\ upgPc = "done"
    /\ upgCmd = "restore_config"
    /\ upgResult = "ok"
    /\ lastSaved[argDir] \in Contents
    /\ upgPre.props # lastSaved[argDir]
    /\ props = lastSaved[argDir]

\* ---- C11: backup before the first destructive step
C11_Backups == {<<"backup", "ok">>, <<"backup_current_zstack", "ok">>}

\* in the runs on the installation, a removal of ZSTACK_HOME comes after a
\* backup step of the same run that succeeded
C11_TreeBackedUp ==
    \A i \in 1..Len(upgLog) :
       (upgCmd \in WarCommands /\ upgLog[i][1] = "rm")
       => \E j \in 1..(i - 1) : upgLog[j] \in C11_Backups

\* in upgrade_db, baseline and migrate come after the run's mysqldump
C11_SchemaBackedUp ==
    \A i \in 1..Len(dbLog) :
       dbLog[i] \in {"baseline", "migrate"}
       => \E j \in 1..(i - 1) : dbLog[j] = "mysqldump"

\* C11 as stated: every run of upgrade_management_node,
\* rollback_management_node and upgrade_db has made its backup before its
\* first destructive step
C11_Original == C11_TreeBackedUp /\ C11_SchemaBackedUp

\* C11, amended: as stated for upgrade_management_node and
\* rollback_management_node, and for upgrade_db unless --no-backup was given;
\* with --no-backup baseline and migrate run and no dump is made by the run
C11_BackupFirst ==
    /\ C11_TreeBackedUp
    /\ ~dbNoBackup => C11_SchemaBackedUp
    /\ dbNoBackup => \A i \in 1..Len(dbLog) : dbLog[i] # "mysqldump"

C11_Witness ==
    /\ upgPc = "done"
    /\ upgCmd = "rollback_management_node"
    /\ Len(upgLog) >= 6
    /\ upgLog[2] = <<"backup_current_zstack", "ok">>
    /\ upgLog[6] = <<"rm", "ok">>
    /\ home # upgPre.home
    /\ bkTree.war = upgPre.home

\* ---- C12: snapshots are write-once
\* a step leaves the files of the run's own timestamped directory, once
\* written, and the database dumps as they are
C12_RunDirKept ==
    /\ upgPc \notin {"prepare", "rb_prepare"}
       => /\ bkProps \notin {"nodir", "absent"} => bkProps' = bkProps
          /\ bkTree # NoTree => bkTree' = bkTree
    /\ dbBackups' >= dbBackups

\* the folder holds what save_config saved there
C12_Saved(d) == lastSaved[d] # "none" /\ saved[d] = lastSaved[d]

C13_IdentityRestored ==
    idPc = "out" =>
       /\ euid = idPre.euid
       /\ egid = idPre.egid
       /\ homeEnv = idPre.home

\* ---- C14: exit codes
\* C14: the process exits with 0 only when the command completed all of its
\* steps without an error, and with 1 whenever an error or an interrupt
\* ended it
C14_ExitCode ==
    mainPc = "exited" =>
       /\ exit_code = 0 => (mainDone = mainSteps /\ mainRaised = "none")
       /\ mainRaised # "none" => exit_code = 1

\* ---- C15: the error message after the backup step
\* C15: when upgrade_management_node or rollback_management_node fails at a
\* step after its backup step, the reported error message names the run's
\* timestamped backup directory
C15_ErrorNamesBackup ==
    ( /\ upgPc = "done"
      /\ upgCmd \in WarCommands
      /\ upgResult = "error"
      /\ Len(upgLog) >= 3
      /\ upgLog[2] \in {<<"backup", "ok">>, <<"backup_current_zstack", "ok">>} )
    => "tmp_dir" \in upgMessage

\* ---- C16: a failing dependency check of start_node
C16_DependencyErrors == {"PortOccupied", "MysqlUnreachable", "RabbitUnreachable"}

\* C16: when a dependency check of start_node fails, the command ends with
\* that error at once: the start script was not run, bin/setenv.sh was not
\* written, no stop was attempted and the node's process is as it was
C16_FailedCheckStartsNothing ==
    ( /\ svcPc = "done"
      /\ svcCmd = "start_node"
      /\ svcResult \in C16_DependencyErrors )
    => /\ "startup" \notin Range(svcLog)
       /\ "stop_node" \notin Range(svcLog)
       /\ svcLog[Len(svcLog)] \in {"check_8080", "check_msyql", "check_rabbitmq"}
       /\ ~setenvWritten
       /\ nodeProc = pre.nodeProc
       /\ ~nodeProc

C16_Witness ==
    /\ svcPc = "done"
    /\ svcCmd = "start_node"
    /\ svcResult = "RabbitUnreachable"
    /\ svcLog = <<"rm_boot_log", "check_8080", "check_msyql", "check_rabbitmq">>
    /\ ~nodeProc

\* ---- C17: the verdict of the status command
\* the process is present / absent for get_management_node_pid()
C17_Present == cmdline \/ (propertiesFile /\ pidFile = "alive")

C17_Absent == ~cmdline /\ propertiesFile /\ pidFile # "alive"

\* C17 as stated: Running only with the process present and the probe
\* succeeding, Zombie with the process present and the probe failing,
\* Stopped whenever the process is absent
C17_Original ==
    stPc = "done" =>
       /\ status = "Running" => (C17_Present /\ return_code = 0)
       /\ (C17_Present /\ return_code # 0) => status = "Zombie"
       /\ C17_Absent => status = "Stopped"

\* C17, amended: without wget and curl the status cannot be detected; with
\* one of them, Running is reported only for a probe that succeeded and
\* replied "true", a failing probe gives Zombie with the process present and
\* Stopped with it absent, and a probe that succeeded is never reported as
\* Zombie or Stopped, whatever the process lookup would find
C17_Verdict ==
    stPc = "done" =>
       /\ what_tool = "none" <=> status = "cannot detect status"
       /\ what_tool # "none" =>
             /\ status = "Running" => (return_code = 0 /\ stdout = "true")
             /\ (C17_Present /\ return_code # 0) => status = "Zombie"
             /\ (C17_Absent /\ return_code # 0) => status = "Stopped"
             /\ return_code = 0 => status \in {"Running", "Starting", "Unknown"}

C17_Witness ==
    /\ stPc = "done"
    /\ what_tool = "wget"
    /\ return_code # 0
    /\ ~cmdline
    /\ pidFile = "alive"
    /\ propertiesFile
    /\ status = "Zombie"

\* ---- C18: what a non-forced stop_node leaves behind
\* C18: a non-forced stop_node on a running node runs the graceful stop
\* command, waits at most 30 seconds for the process to go and then kills
\* it, so that in every outcome of the graceful stop command (command
\* failure included) the process is absent when stop_node finishes.
C18_StopLeavesNoProcess ==
    (/\ svcPc = "done"
     /\ svcCmd = "stop_node"
     /\ ~argForce
     /\ pre.nodeProc) =>
        /\ "shutdown" \in Range(svcLog)
        /\ svcClock <= StopTimeout
        /\ ~nodeProc

\* ---- C19: the upgrade neither starts the node nor rolls back
\* C19: no step of upgrade_management_node, in a run that succeeds or in one
\* that fails, brings the management node's process up or puts the old
\* artifact back in place, and a run that succeeds ends with the node
\* stopped.
C19_NoStartNoRollback ==
    [][(upgCmd = "upgrade_management_node" /\ upgPc \notin {"idle", "done"}) =>
          /\ nodeProc' => nodeProc
          /\ home' = OldVersion => home = OldVersion
          /\ (upgPc' = "done" /\ upgResult' = "ok") =>
                (~nodeProc' /\ api' = "down" /\ home' = NewVersion)]_vars

\* a successful upgrade of an installation of the old version
C19_Witness ==
    /\ upgCmd = "upgrade_management_node"
    /\ upgPc = "done"
    /\ upgResult = "ok"
    /\ upgPre.home = OldVersion
    /\ <<"stop_node", "ok">> \in Range(upgLog)
    /\ ~nodeProc
    /\ home = NewVersion

\* ---- C20: rollback_db behind the running-node check
\* the running-node check refuses this run: a first sample with a row and no
\* --force, or with --force a heartbeat that differs between the two samples
C20_Refused ==
    \/ ~dbForce /\ samples >= 1 /\ HasNodes(nodes)
    \/ dbForce /\ samples = 2 /\ C4_Changed

\* C20: rollback_db changes the database only by loading the dump, and loads
\* it only after the running-node check has passed; a run the check refuses
\* fails with the check's error and has run no mutating command; no run of
\* rollback_db runs the migration tool (baseline or migrate).
C20_LoadAfterCheck ==
    [][(dbCmd = "rollback_db" /\ dbCmd' = dbCmd) =>
          /\ (\/ <<schemaTable', schemaVersion', dbBackups'>>
                    # <<schemaTable, schemaVersion, dbBackups>>
              \/ dbLog' # dbLog)
                => (checkPassed /\ dbPc = "rb_load" /\ db_dump
                    /\ dbLog' = <<"load">>)
          /\ registry' # registry => (dbPc \in {"grace_sleep", "rb_load"})
          /\ (dbPc' = "done" /\ C20_Refused') =>
                /\ dbResult' \in {"NodesStillRunning", "NodeStillAlive"}
                /\ dbLog' = <<>>
                /\ ~checkPassed']_vars

\* a forced rollback_db refused for a changed heartbeat
C20_Witness ==
    /\ dbCmd = "rollback_db"
    /\ dbPc = "done"
    /\ dbForce
    /\ samples = 2
    /\ C4_Changed
    /\ dbResult = "NodeStillAlive"
    /\ dbLog = <<>>

\* ---- C21: a command given --host against the same command run on the host
\* the command line of the local run on H with the options given
C21_Local ==
    [cmd |-> rmCmd,
     timeout |-> IF rmCmd = "start_node" THEN rmArgs.timeout ELSE 0,
     force |-> rmCmd = "stop_node" /\ rmArgs.force,
     war_file |-> IF rmCmd \in WarCommands THEN rmArgs.war_file ELSE "none",
     property_file |-> IF rmCmd = "rollback_management_node"
                          THEN rmArgs.property_file ELSE "none"]

\* C21: start_node, stop_node, upgrade_management_node and
\* rollback_management_node given --host H run on H the same command with the
\* same option values (timeout, force, war file, property file) as the local
\* run on H.
C21_RemoteSameOptions ==
    (rmPc = "done" /\ rmLine.cmd # "none") => rmLine = C21_Local

\* ---- C22: the order of the steps of the local upgrade
\* the steps of local_upgrade() as they are logged, after the checks of run()
C22_Order ==
    <<"prepare", "backup", "download_war_if_needed", "stop_node", "rm", "cp",
      "unzip", "restore_config", "install_tools", "save_new_war",
      "chown_to_zstack">>

\* the log follows `order` from its start, each step once, a failed step last
C22_Follows(order) ==
    /\ Len(upgLog) <= Len(order)
    /\ \A i \in 1..Len(upgLog) :
          /\ \/ upgLog[i][1] = order[i]
             \/ i = 1 /\ upgLog[i][1] \in {"error_if_tool_is_missing", "mkdir"}
          /\ upgLog[i][2] = "fail" => (i = Len(upgLog) /\ upgPc = "done")

\* the artifact directory is touched only with the backup and the stop of
\* this run done
C22_RemovedAfter(bk) ==
    (home # upgPre.home \/ <<"rm", "ok">> \in Range(upgLog)
        \/ <<"rm", "fail">> \in Range(upgLog)) =>
       \E i, j \in 1..Len(upgLog) :
          /\ upgLog[i] = <<bk, "ok">>
          /\ upgLog[j] = <<"stop_node", "ok">>
          /\ i < j
          /\ \A k \in 1..Len(upgLog) : upgLog[k][1] = "rm" => j < k

\* C22: local upgrade_management_node runs backup, stop node, replace
\* artifact, restore configuration, reinstall tools in this order, each at
\* most once; the artifact directory is removed only after the backup and the
\* stop of the same run succeeded; after a failing step no step is run.
C22_UpgradeOrder ==
    upgCmd = "upgrade_management_node" =>
       (C22_Follows(C22_Order) /\ C22_RemovedAfter("backup"))

\* an upgrade that ran every step
C22_Witness ==
    /\ upgCmd = "upgrade_management_node"
    /\ upgPc = "done"
    /\ upgResult = "ok"
    /\ Len(upgLog) = Len(C22_Order)
    /\ home = NewVersion

\* ---- C23: an upgrade that fails before it replaces the artifact
\* the running command failed in one of `steps`
C23_FailedIn(steps) ==
    /\ upgPc = "done"
    /\ upgLog # <<>>
    /\ upgLog[Len(upgLog)][2] = "fail"
    /\ upgLog[Len(upgLog)][1] \in steps

\* C23: a local upgrade_management_node that fails in its backup, download
\* or stop step leaves the artifact directory and the configuration file as
\* they were before it, and the backup the run has written is still there.
C23_EarlyFailureKeeps ==
    (/\ upgCmd = "upgrade_management_node"
     /\ C23_FailedIn({"backup", "download_war_if_needed", "stop_node"})) =>
        /\ home = upgPre.home
        /\ props = upgPre.props
        /\ <<"backup", "ok">> \in Range(upgLog) =>
              /\ bkProps = upgPre.props
              /\ bkTree = [war |-> upgPre.home, props |-> upgPre.props]

\* an upgrade whose stop step failed after the backup was written
C23_Witness ==
    /\ upgCmd = "upgrade_management_node"
    /\ C23_FailedIn({"stop_node"})
    /\ <<"backup", "ok">> \in Range(upgLog)
    /\ bkTree = [war |-> upgPre.home, props |-> upgPre.props]
    /\ nodeProc

\* ---- C24: the configuration after a successful upgrade or rollback
\* C24: after a successful local upgrade_management_node the configuration
\* file has the content it had before the upgrade; after a successful local
\* rollback_management_node it has the content of the file of --property-file
\* when one was given, else the content it had before the rollback.
C24_ConfigReapplied ==
    (upgPc = "done" /\ upgResult = "ok" /\ upgCmd \in WarCommands) =>
        props = (IF upgCmd = "rollback_management_node"
                    /\ property_file # "none"
                    THEN property_file ELSE upgPre.props)

\* a rollback given a property file that differs from the live one
C24_Witness ==
    /\ upgCmd = "rollback_management_node"
    /\ upgPc = "done"
    /\ upgResult = "ok"
    /\ property_file = "p1"
    /\ upgPre.props = "p2"
    /\ props = "p1"

\* ---- C25: the order of the steps of the local rollback
C25_Order ==
    <<"prepare", "backup_current_zstack", "download_war_if_needed",
      "save_property_file_if_needed", "stop_node", "rm", "unzip",
      "restore_config", "install_tools">>

\* C25: local rollback_management_node backs up the current artifact,
\* resolves the war file, saves or validates the property file, stops the
\* node, replaces the artifact, restores the configuration and reinstalls the
\* tools, in this order; the artifact directory is removed only after the
\* backup and the stop succeeded, a failing step is the last one, and the
\* registry is never sampled nor the grace period waited.
C25_RollbackOrder ==
    upgCmd = "rollback_management_node" =>
       /\ C22_Follows(C25_Order)
       /\ C22_RemovedAfter("backup_current_zstack")
       /\ samples = 0
       /\ dbClock = 0

\* a rollback that ran every step
C25_Witness ==
    /\ upgCmd = "rollback_management_node"
    /\ upgPc = "done"
    /\ upgResult = "ok"
    /\ Len(upgLog) = Len(C25_Order)
    /\ home = OldVersion

\* ---- C26: the first call of the predicate
\* C26: the wrapper of loop_until_timeout calls the predicate at least once,
\* at once on entry, for every timeout, 0 included; it returns True at the
\* first call that answers true, and False only after the predicate was
\* tried and the elapsed time has reached the timeout.
C26_TriedAtLeastOnce ==
    /\ loopPc \in {"sleep", "done"} => calls >= 1
    /\ (calls = 0 /\ loopPc # "done") => clock = 0
    /\ (loopPc = "done" /\ loopRet = "True") => (Predicate /\ calls >= 1)
    /\ (loopPc = "done" /\ loopRet = "False") =>
          (calls >= 1 /\ clock >= timeout)

\* ---- C27: the forced stop
\* C27: stop_node with force=true on a running node never runs the graceful
\* stop command and never waits: it goes to the kill of the process it finds.
C27_ForceSkipsGraceful ==
    (/\ svcCmd = "stop_node"
     /\ argForce
     /\ pre.nodeProc
     /\ svcPc # "idle") =>
        /\ svcPc \in {"stop_getpid", "stop_kill", "done"}
        /\ "shutdown" \notin Range(svcLog)
        /\ svcClock = 0
        /\ wait_expired = 0
        /\ svcPc = "done" => (svcLog = <<"kill">> /\ Len(svcLog) = 1)

\* a forced stop that killed the running node
C27_Witness ==
    /\ svcCmd = "stop_node"
    /\ argForce
    /\ pre.nodeProc
    /\ svcPc = "done"
    /\ svcResult = "ok"
    /\ svcLog = <<"kill">>
    /\ ~nodeProc

\* ---- C28: what a successful start_node leaves
\* C28: whenever start_node returns success the node is Running for the
\* status command in the same state: its process is present and its
\* readiness probe answers ready.
C28_SuccessIsRunning ==
    (/\ svcPc = "done"
     /\ svcCmd = "start_node"
     /\ svcResult = "ok") =>
        /\ nodeProc
        /\ api = "true"

\* ---- C29: a time-series store that does not come up in time
\* C29: when kairosdb --start or cassandra --start with a wait timeout sees
\* the port not listening within the timeout, the command tries to stop the
\* service it started before it fails with the startup-timeout error, so
\* that the service is not left running.
C29_TimeoutStopsService ==
    (/\ svcPc = "done"
     /\ svcCmd \in {"kairosdb_start", "cassandra_start"}
     /\ svcResult = "StartupTimeout") =>
        /\ Len(svcLog) >= 2
        /\ IF svcCmd = "kairosdb_start" THEN ~kairosProc ELSE ~cassProc

\* ---- C30: a node that registers during the grace wait
\* C30: in the forced running-node check the migration proceeds only if no
\* live node is seen across the two samples: a node in the second sample
\* that was absent from the first makes the check fail.
C30_NewNodeFailsCheck ==
    (/\ dbCmd = "upgrade_db"
     /\ dbForce
     /\ samples = 2
     /\ \E h \in Hosts : nodes[h] = Absent /\ new_nodes[h] # Absent) =>
        /\ ~checkPassed
        /\ "migrate" \notin Range(dbLog)

\* ---- C31: the lazily created baseline
\* C31: upgrade_db runs the baseline if and only if the table schema_version
\* is absent, after the backup (when one is made) and before the migration;
\* the table once there stays, so that over any sequence of runs the
\* baseline is created at most once.
C31_BaselineLazy ==
    [][/\ ("baseline" \in Range(dbLog') /\ "baseline" \notin Range(dbLog)) =>
             /\ ~schemaTable
             /\ dbCmd = "upgrade_db"
             /\ "migrate" \notin Range(dbLog)
             /\ dbLog = (IF dbNoBackup THEN <<>> ELSE <<"mysqldump">>)
       /\ "migrate" \in Range(dbLog') =>
             (schemaTable' /\ (~schemaTable => "baseline" \in Range(dbLog')))
       /\ schemaTable => schemaTable']_vars

\* a second run that migrates over the baseline made by the first
C31_Witness ==
    /\ dbCmd = "upgrade_db"
    /\ dbRuns = 2
    /\ dbPc = "done"
    /\ dbResult = "ok"
    /\ schemaTable
    /\ "migrate" \in Range(dbLog)
    /\ "baseline" \notin Range(dbLog)

\* ---- C32: the dry run
\* C32: upgrade_db --dry-run makes the same checks as a real run, the
\* running-node check included, and makes no backup, no baseline and no
\* migration: the schema and the dumps are as they were, whether the dry run
\* succeeds or fails.
C32_DryRunChangesNothing ==
    [][(dbCmd = "upgrade_db" /\ dbDryRun /\ dbCmd' = dbCmd) =>
          /\ UNCHANGED <<schemaTable, schemaVersion, dbBackups>>
          /\ dbLog' = <<>>
          /\ (dbPc' = "done" /\ dbResult' = "ok") =>
                /\ DbTools \subseteq tools
                /\ dbConfigured
                /\ flywayInstalled
                /\ checkPassed'
                /\ samples' >= 1
                /\ ~HasNodes(nodes') \/ (dbForce /\ samples' = 2)]_vars

\* a forced dry run that passed the check over a registry with rows
C32_Witness ==
    /\ dbCmd = "upgrade_db"
    /\ dbDryRun
    /\ dbForce
    /\ dbPc = "done"
    /\ dbResult = "ok"
    /\ samples = 2
    /\ HasNodes(nodes)

\* ---- C33: the order of the topology-wide commands
C33_Services == <<"cassandra", "kairosdb", "mgmt_node", "ui">>

\* C33: the topology-wide start goes through cassandra, kairosdb, the
\* management node and the UI in that order, the topology-wide stop through
\* the same services in exactly the reverse order, and no step of either is
\* about another service (the database, the message broker).
C33_StartAndStopOrder ==
    /\ Len(topoLog) <= 4
    /\ \A i \in 1..Len(topoLog) :
          topoLog[i][1] = (IF topoCmd = "start"
                              THEN "start_" \o C33_Services[i]
                              ELSE "stop_" \o C33_Services[5 - i])
    /\ (topoPc = "done" /\ topoResult = "ok") => Len(topoLog) = 4
    /\ topoPc \notin {"idle", "done"} =>
          topoPc = (IF topoCmd = "start"
                       THEN "start_" \o C33_Services[Len(topoLog) + 1]
                       ELSE "stop_" \o C33_Services[4 - Len(topoLog)])

\* a stop that went through its four steps, none skipped
C33_Witness ==
    /\ topoCmd = "stop"
    /\ topoPc = "done"
    /\ topoResult = "ok"
    /\ Len(topoLog) = 4
    /\ \A i \in 1..4 : topoLog[i][2] = "ok"

\* ---- C34: the external tools are looked up first
\* C34: in upgrade_management_node, rollback_management_node, upgrade_db and
\* rollback_db, when a tool the run needs is absent (unzip, wget for a war
\* file given as a URL, mysql, mysqldump) the command ends in its first step
\* with the tool-missing error: no step of the command has been carried out
\* (no directory made, no backup, no node stopped, nothing changed).
C34_ToolsCheckedFirst ==
    /\ (/\ upgCmd \in WarCommands
        /\ "unzip" \notin upgTools \/ (need_download /\ "wget" \notin upgTools))
          => \A i \in 1..Len(upgLog) : upgLog[i][2] # "ok"
    /\ (/\ dbCmd # "none"
        /\ dbPc \notin {"idle", "db_tools"}
        /\ ~(DbNeeds \subseteq tools))
          => /\ dbPc = "done"
             /\ dbResult = "ToolMissing"
             /\ dbLog = <<>>

\* ---- C35: two start_node commands at the same time
\* C35: when two start_node commands run as concurrent processes against one
\* stopped management node, in every interleaving the start script is run at
\* most once.
C35_AtMostOneLaunch ==
    raceLaunched <= 1

\* ---- C36: the property file round trip
\* C36: after write_property(k, v) or write_properties([(k, v)]) has
\* returned, the file holds v for k and every other key has the value it had;
\* read_property of a key that is not in the file returns None and leaves
\* the file as it was.
C36_RoundTrip ==
    /\ (/\ pfPc = "done"
        /\ pfOp \in {"write_property", "write_properties"}
        /\ Len(pfArgs) = 1
        /\ pfRet = "returned")
          => /\ pfFile[pfArgs[1][1]] = pfArgs[1][2]
             /\ \A j \in PropKeys \ {pfArgs[1][1]} : pfFile[j] = pfPre[j]
    /\ (/\ pfPc = "done"
        /\ pfOp = "read_property"
        /\ pfPresent)
          => /\ pfRet = pfPre[pfArgs[1]]
             /\ pfFile = pfPre

\* ---- C38: what start_ui reports
\* C38: the local start_ui reports that the UI server has started only when
\* write_pid() found a UI process within its five seconds and wrote the pid
\* to the PID file.
C38_SuccessMeansPidWritten ==
    (suPc = "done" /\ suReport = "success") =>
        (suWrote /\ suProc /\ suPidFile = "live")

\* ---- C37: the war file a remote rollback copies
\* C37: rollback_management_node given --host and a local war file W copies
\* W to the host and rolls the node there back to it: the source of the copy
\* is the resolved path of W, never an unset value, and the rollback command
\* is run on the host.
C37_RemoteRollbackCopiesWar ==
    (/\ rmPc = "done"
     /\ rmCmd = "rollback_management_node"
     /\ rmArgs.war_file = "local")
       => /\ src_war = rmArgs.war_file
          /\ rmLine.cmd = "rollback_management_node"

\* ---- C39: the wait of the time-series start commands
\* C39: kairosdb --start and cassandra --start with a wait timeout N >= 0
\* fail with the not-listening error only after the port probe has been made
\* at least once and has failed, so that the countdown has left N; with N = 0
\* too.
C39_ProbedBeforeTimeout ==
    (/\ svcCmd \in {"kairosdb_start", "cassandra_start"}
     /\ svcPc = "done"
     /\ svcResult = "StartupTimeout")
       => count < argTimeout

\* ---- C40: the boot error log of an earlier start
\* C40: start_node removes the boot error log before it starts the node, so
\* that the log is absent from the removal to the start command and a log
\* found during the wait was written after this run's start command; a log
\* found by check() ends the wait at once, whatever time is left, and
\* stop_node is run before the boot failure is reported.
C40_StaleLogIgnored ==
    [][/\ (/\ svcCmd' = "start_node"
           /\ "rm_boot_log" \in Range(svcLog')
           /\ "startup" \notin Range(svcLog')) => ~bootErrorLog'
       /\ (pendingError' = "BootFailed" /\ pendingError # "BootFailed") =>
             /\ svcPc = "wait_check"
             /\ bootErrorLog
             /\ "startup" \in Range(svcLog)
             /\ svcPc' = "cleanup"
       /\ (svcResult' = "BootFailed" /\ svcResult # "BootFailed") =>
             /\ svcCmd = "start_node"
             /\ pendingError = "BootFailed"
             /\ "startup" \in Range(svcLog)
             /\ "stop_node" \in Range(svcLog)]_vars

\* a run entered with the log of an earlier failure in place, which started
\* the node, found a new boot error and reported it after the stop
C40_Witness ==
    /\ svcCmd = "start_node"
    /\ svcPc = "done"
    /\ pre.bootErrorLog
    /\ svcResult = "BootFailed"
    /\ "stop_node" \in Range(svcLog)

====
